---------------------------- MODULE Spec2Model ----------------------------
(***************************************************************************)
(* Model of the quiz server (src/unnamed/part_001): the submit handler,    *)
(* its validation and scoring, the file-backed leaderboard it merges into, *)
(* sorts and trims, and the selection of questions; and of the quiz page   *)
(* (src/unnamed/part_000, the client with a choice of the question count). *)
(*                                                                         *)
(* Conventions                                                             *)
(*  - A JavaScript string is a sequence of one-character strings.          *)
(*  - A JSON value whose type the code tests with typeof is a record       *)
(*    [t |-> <typeof>, v |-> <number>]; v is 0 when t is not "number".      *)
(*  - Times are counted in thirds of 1/100 s, so that toFixed(2) is a real *)
(*    rounding (to a multiple of 3) and never meets an exact half.         *)
(*  - JavaScript arrays are 0-based, sequences here 1-based: the code's    *)
(*    index i is position i + 1.                                           *)
(***************************************************************************)
EXTENDS Integers, Sequences, FiniteSets, TLC

VARIABLES
  leaderboardFile,  \* data/leaderboard.json: [exists, entries]
  now,              \* the server clock (Date), in milliseconds
  req,              \* the body of the last POST /api/submit request
  res,              \* the last response sent by handleApiRequest
  last,             \* the locals of the last POST /api/submit handler run;
                    \* last.leaderboard is its list after the merge
  handlers,         \* the POST /api/submit handlers of overlapping requests
  ioLog,            \* the reads and writes of the file so far, in their order
  quiz,             \* the last GET /api/quiz: its query, locals and response
  state,            \* the page's state object (part_000, line 418)
  elements,         \* what the page's code sets on its elements
  network           \* the page's requests in flight

serverVars == <<leaderboardFile, now, req, res, last>>

otherVars == <<handlers, ioLog, quiz, state, elements, network>>

vars == <<leaderboardFile, now, req, res, last, handlers, ioLog, quiz, state, elements, network>>

(***************************************************************************)
(* Bounds of the model.                                                    *)
(***************************************************************************)
BankSize == 2
MaxClock == 1
MaxRawTime == 3
MaxNameLen == 3
MaxAnswers == 3

(***************************************************************************)
(* Program constants.                                                      *)
(***************************************************************************)
LeaderboardLimit == 25
NameLimit == 32
NULL == -1

Min(a, b) == IF a < b THEN a ELSE b

(***************************************************************************)
(* The question bank (data/questions): ids differ from array indices, the  *)
(* answer index of each question is one of its choices.                    *)
(***************************************************************************)
questions == [i \in 1..BankSize |-> [id |-> 10 + i, answer |-> i % 2]]

questionIdSet == {questions[i].id : i \in 1..BankSize}

questionMap(id) == questions[CHOOSE i \in 1..BankSize : questions[i].id = id]

(***************************************************************************)
(* sanitizeName: name.replace(/\s+/g, ' ').trim().slice(0, 32)             *)
(***************************************************************************)
IsSpace(c) == c \in {" ", "\t", "\n"}

\* replace(/\s+/g, ' '): every maximal run of whitespace becomes one space.
RECURSIVE collapseWhitespace(_)
collapseWhitespace(s) ==
  IF s = <<>> THEN <<>>
  ELSE IF IsSpace(Head(s))
       THEN IF Len(s) > 1 /\ IsSpace(s[2])
            THEN collapseWhitespace(Tail(s))
            ELSE <<" ">> \o collapseWhitespace(Tail(s))
       ELSE <<Head(s)>> \o collapseWhitespace(Tail(s))

RECURSIVE trimStart(_)
trimStart(s) ==
  IF s # <<>> /\ IsSpace(Head(s)) THEN trimStart(Tail(s)) ELSE s

RECURSIVE trimEnd(_)
trimEnd(s) ==
  IF s # <<>> /\ IsSpace(s[Len(s)]) THEN trimEnd(SubSeq(s, 1, Len(s) - 1)) ELSE s

trim(s) == trimEnd(trimStart(s))

\* slice(0, n) of a string
sliceTo(s, n) == SubSeq(s, 1, Min(n, Len(s)))

\* the sanitizing without the collapse of whitespace runs
sanitizeNameNoCollapse(name) == sliceTo(trim(name), NameLimit)

sanitizeName(name) == sliceTo(trim(collapseWhitespace(name)), NameLimit)

(***************************************************************************)
(* normalizeAnswers(rawAnswers).  rawAnswers is [isArray, items]; an item  *)
(* is [t, v, questionId, choiceIndex]: t is typeof the item ("object",     *)
(* "number", or anything else), v its value when a number, questionId and  *)
(* choiceIndex its fields (JSON values) when an object.  The Map is a      *)
(* sequence of [questionId, choiceIndex] in insertion order; null is       *)
(* [isNull |-> TRUE].                                                      *)
(***************************************************************************)
mapHas(map, key) == \E k \in 1..Len(map) : map[k].questionId = key

mapGet(map, key) == map[CHOOSE k \in 1..Len(map) : map[k].questionId = key].choiceIndex

mapSet(map, key, value) == Append(map, [questionId |-> key, choiceIndex |-> value])

\* the body of the forEach callback (lines 81-97): the Map after one entry
visitAnswer(map, entry, index) ==
  IF entry.t = "object" /\ entry.questionId.t = "number" /\ entry.choiceIndex.t = "number"
  THEN IF entry.questionId.v \notin questionIdSet \/ mapHas(map, entry.questionId.v)
       THEN map
       ELSE mapSet(map, entry.questionId.v, entry.choiceIndex.v)
  ELSE IF entry.t = "number" /\ index < BankSize
       THEN LET questionId == questions[index + 1].id
            IN  IF questionId \notin questionIdSet \/ mapHas(map, questionId)
                THEN map
                ELSE mapSet(map, questionId, entry.v)
       ELSE map

RECURSIVE forEachAnswer(_, _, _)
forEachAnswer(items, index, map) ==
  IF index >= Len(items) THEN map
  ELSE forEachAnswer(items, index + 1, visitAnswer(map, items[index + 1], index))

\* the normalizing without the comparison of the sizes (lines 99-101)
normalizeAnswersPartial(rawAnswers) ==
  IF ~rawAnswers.isArray \/ Len(rawAnswers.items) = 0
  THEN [isNull |-> TRUE, map |-> <<>>]
  ELSE [isNull |-> FALSE, map |-> forEachAnswer(rawAnswers.items, 0, <<>>)]

normalizeAnswers(rawAnswers) ==
  IF ~rawAnswers.isArray \/ Len(rawAnswers.items) = 0
  THEN [isNull |-> TRUE, map |-> <<>>]
  ELSE LET map == forEachAnswer(rawAnswers.items, 0, <<>>)
       IN  IF Len(map) # Len(rawAnswers.items)
           THEN [isNull |-> TRUE, map |-> <<>>]
           ELSE [isNull |-> FALSE, map |-> map]

(***************************************************************************)
(* sortLeaderboard(entries).  An entry is                                  *)
(* [name, score, totalQuestions, totalTime, completedAt]; totalTime is     *)
(* NULL or a number.  In the subtraction a.totalTime - b.totalTime         *)
(* JavaScript converts null to 0.                                          *)
(***************************************************************************)
toNumber(t) == IF t = NULL THEN 0 ELSE t

\* the comparator without its comparison of the times
compareEntriesNoTime(a, b) ==
  IF b.score # a.score
  THEN b.score - a.score
  ELSE a.completedAt - b.completedAt

\* the comparator of lines 49-57
compareEntries(a, b) ==
  IF b.score # a.score
  THEN b.score - a.score
  ELSE IF a.totalTime # b.totalTime
       THEN toNumber(a.totalTime) - toNumber(b.totalTime)
       ELSE a.completedAt - b.completedAt

\* Array.prototype.sort is stable: x goes behind every element that does not
\* compare greater than it.
RECURSIVE insertSorted(_, _)
insertSorted(s, x) ==
  IF s = <<>> \/ compareEntries(s[Len(s)], x) <= 0
  THEN Append(s, x)
  ELSE Append(insertSorted(SubSeq(s, 1, Len(s) - 1), x), s[Len(s)])

RECURSIVE sortFrom(_, _, _)
sortFrom(entries, k, sorted) ==
  IF k > Len(entries) THEN sorted
  ELSE sortFrom(entries, k + 1, insertSorted(sorted, entries[k]))

sortEntries(entries) == sortFrom(entries, 1, <<>>)

\* the sort without the slice(0, 25)
sortLeaderboardUntrimmed(entries) == sortEntries(entries)

sortLeaderboard(entries) ==
  LET sorted == sortEntries(entries)
  IN  SubSeq(sorted, 1, Min(LeaderboardLimit, Len(sorted)))

(***************************************************************************)
(* readLeaderboard / writeLeaderboard on the file [exists, entries].       *)
(* A missing file is created as '[]' by the read.                          *)
(***************************************************************************)
readLeaderboard(file) ==
  IF file.exists
  THEN [entries |-> file.entries, file |-> file]
  ELSE [entries |-> <<>>, file |-> [exists |-> TRUE, entries |-> <<>>]]

writeLeaderboard(entries) == [exists |-> TRUE, entries |-> entries]

(***************************************************************************)
(* POST /api/submit, lines 165-231.                                        *)
(***************************************************************************)
\* Number(totalTime.toFixed(2)): the nearest multiple of 1/100 s (3 units)
toFixed2(t) == ((t + 1) \div 3) * 3

\* the validation without the test totalTime >= 0
validTotalTimeAnyNumber(totalTime) ==
  IF totalTime.t = "number" THEN totalTime.v ELSE NULL

\* line 170
validTotalTime(totalTime) ==
  IF totalTime.t = "number" /\ totalTime.v >= 0 THEN totalTime.v ELSE NULL

\* the reduce awarding a point for every answered question
scoreFromEveryAnswer(answerMap, k, acc) == acc + Len(answerMap) - (k - 1)

\* lines 182, 188-195: the reduce over the answered questions
RECURSIVE scoreFrom(_, _, _)
scoreFrom(answerMap, k, acc) ==
  IF k > Len(answerMap) THEN acc
  ELSE LET question == questionMap(answerMap[k].questionId)
           selected == mapGet(answerMap, question.id)
       IN  scoreFrom(answerMap, k + 1, acc + (IF question.answer = selected THEN 1 ELSE 0))

\* leaderboard.findIndex(entry => entry.name === name), -1 when there is none
findIndex(leaderboard, name) ==
  IF \E k \in 1..Len(leaderboard) : leaderboard[k].name = name
  THEN (CHOOSE k \in 1..Len(leaderboard) :
          /\ leaderboard[k].name = name
          /\ \A j \in 1..(k - 1) : leaderboard[j].name # name) - 1
  ELSE -1

\* line 210
isBetterScore(score, current) == score > current.score

\* line 211
isFaster(score, totalTime, current) ==
  /\ score = current.score
  /\ totalTime # NULL /\ current.totalTime # NULL
  /\ totalTime < current.totalTime

\* the merge replacing on any tie of the score
mergeEntryOnTie(leaderboard, newEntry, score, totalTime) ==
  LET existingIndex == findIndex(leaderboard, newEntry.name)
  IN  IF existingIndex >= 0
      THEN IF score >= leaderboard[existingIndex + 1].score
           THEN [leaderboard EXCEPT ![existingIndex + 1] = newEntry]
           ELSE leaderboard
      ELSE Append(leaderboard, newEntry)

\* the merge without the lookup of the name
mergeEntryAlwaysAppends(leaderboard, newEntry, score, totalTime) ==
  Append(leaderboard, newEntry)

\* the merge that keeps the latest entry of a name
mergeEntryAlwaysReplaces(leaderboard, newEntry, score, totalTime) ==
  LET existingIndex == findIndex(leaderboard, newEntry.name)
  IN  IF existingIndex >= 0
      THEN [leaderboard EXCEPT ![existingIndex + 1] = newEntry]
      ELSE Append(leaderboard, newEntry)

\* lines 207-217: the handler's list after the merge
mergeEntry(leaderboard, newEntry, score, totalTime) ==
  LET existingIndex == findIndex(leaderboard, newEntry.name)
  IN  IF existingIndex >= 0
      THEN LET current == leaderboard[existingIndex + 1]
           IN  IF isBetterScore(score, current) \/ isFaster(score, totalTime, current)
               THEN [leaderboard EXCEPT ![existingIndex + 1] = newEntry]
               ELSE leaderboard
      ELSE Append(leaderboard, newEntry)

\* the handler's locals when it returns before the merge
noLocals ==
  [accepted |-> FALSE, name |-> <<>>, score |-> 0, totalQuestions |-> 0,
   totalTime |-> NULL, existingIndex |-> -1,
   isBetterScore |-> FALSE, isFaster |-> FALSE, leaderboard |-> <<>>]

\* sendJson(res, status, {error}); error names the message of the source:
\* "name" (line 173), "answers" (line 178), "unknown" (line 184), "format" (line 229)
errorResponse(status, error) ==
  [route |-> "submit", status |-> status, keys |-> {"error"}, error |-> error,
   score |-> 0, total |-> 0, leaderboard |-> <<>>]

\* a rejection after the leaderboard was read
rejectSubmitAfterRead(file, error) ==
  [res |-> errorResponse(400, error), file |-> readLeaderboard(file).file, last |-> noLocals]

rejectSubmit(file, error) ==
  [res |-> errorResponse(400, error), file |-> file, last |-> noLocals]

\* lines 197-226: read, merge, sort, write, respond
acceptSubmit(file, clock, name, answerMap, totalTime) ==
  LET totalQuestions == Len(answerMap)
      score == scoreFrom(answerMap, 1, 0)
      read == readLeaderboard(file)
      leaderboard == read.entries
      completedAt == clock
      newEntry == [name |-> name, score |-> score, totalQuestions |-> totalQuestions,
                   totalTime |-> IF totalTime # NULL THEN toFixed2(totalTime) ELSE NULL,
                   completedAt |-> completedAt]
      existingIndex == findIndex(leaderboard, name)
      merged == mergeEntry(leaderboard, newEntry, score, totalTime)
      sorted == sortLeaderboard(merged)
  IN  [res |-> [route |-> "submit", status |-> 200,
                keys |-> {"score", "total", "leaderboard"}, error |-> "",
                score |-> score, total |-> totalQuestions, leaderboard |-> sorted],
       file |-> writeLeaderboard(sorted),
       last |-> [accepted |-> TRUE, name |-> name, score |-> score,
                 totalQuestions |-> totalQuestions, totalTime |-> totalTime,
                 existingIndex |-> existingIndex,
                 isBetterScore |-> existingIndex >= 0
                                   /\ isBetterScore(score, leaderboard[existingIndex + 1]),
                 isFaster |-> existingIndex >= 0
                              /\ isFaster(score, totalTime, leaderboard[existingIndex + 1]),
                 leaderboard |-> merged]]

\* The request body is [parse, playerName, answers, totalTime]: parse is
\* "error" when JSON.parse throws, "null" when it yields null (reading a
\* property of it throws), "object" otherwise; playerName is [t, s].
\* A playerName that is neither a string nor falsy has no replace method:
\* sanitizeName throws, and the catch of line 227 answers.
handleSubmit(body, file, clock) ==
  IF body.parse # "object" \/ body.playerName.t \notin {"string", "undefined"}
  THEN rejectSubmit(file, "format")
  ELSE LET name == sanitizeName(IF body.playerName.t = "string"
                                THEN body.playerName.s ELSE <<>>)
           answerMap == normalizeAnswers(body.answers)
           totalTime == validTotalTime(body.totalTime)
       IN  IF name = <<>>
           THEN rejectSubmit(file, "name")
           ELSE IF answerMap.isNull \/ Len(answerMap.map) = 0
           THEN rejectSubmit(file, "answers")
           ELSE IF \E k \in 1..Len(answerMap.map) :
                     answerMap.map[k].questionId \notin questionIdSet
           THEN rejectSubmit(file, "unknown")
           ELSE acceptSubmit(file, clock, name, answerMap.map, totalTime)

\* GET /api/leaderboard, lines 150-154
handleLeaderboard(file) ==
  LET read == readLeaderboard(file)
  IN  [res |-> [route |-> "leaderboard", status |-> 200, keys |-> {"leaderboard"},
                error |-> "", score |-> 0, total |-> 0,
                leaderboard |-> sortLeaderboard(read.entries)],
       file |-> read.file]

(***************************************************************************)
(* Requests.                                                               *)
(***************************************************************************)
JNum(n) == [t |-> "number", v |-> n]
JString == [t |-> "string", v |-> 0]
JUndefined == [t |-> "undefined", v |-> 0]

NameString(s) == [t |-> "string", s |-> s]
NameUndefined == [t |-> "undefined", s |-> <<>>]
NameNumber == [t |-> "number", s |-> <<>>]

ObjItem(q, c) == [t |-> "object", v |-> 0, questionId |-> q, choiceIndex |-> c]
NumItem(n) == [t |-> "number", v |-> n, questionId |-> JUndefined, choiceIndex |-> JUndefined]
OtherItem == [t |-> "string", v |-> 0, questionId |-> JUndefined, choiceIndex |-> JUndefined]

AnswerArray(items) == [isArray |-> TRUE, items |-> items]
NotArray == [isArray |-> FALSE, items |-> <<>>]

Body(playerName, answers, totalTime) ==
  [parse |-> "object", playerName |-> playerName, answers |-> answers, totalTime |-> totalTime]

\* a body JSON.parse rejects, and the body 'null'
MalformedBody == [Body(NameUndefined, NotArray, JUndefined) EXCEPT !.parse = "error"]
NullBody == [Body(NameUndefined, NotArray, JUndefined) EXCEPT !.parse = "null"]

\* no POST /api/submit received yet, or the last request was a GET
noRequest == [Body(NameUndefined, NotArray, JUndefined) EXCEPT !.parse = "none"]

\* the first k questions of the bank, answered right
RightAnswers(k) ==
  [i \in 1..k |-> ObjItem(JNum(questions[i].id), JNum(questions[i].answer))]

\* the first question of the bank, answered wrong
WrongAnswer == <<ObjItem(JNum(questions[1].id), JNum(questions[1].answer + 1))>>

(***************************************************************************)
(* The requests of the store specifications: two players, one of them      *)
(* under two spellings of the name, scores 0 and 1, times missing, 0 and   *)
(* from 2 up (2 rounds to 3).                                              *)
(***************************************************************************)
StoreNames == {<<"a">>, <<" ", "a">>, <<"b">>}
StoreAnswers == {AnswerArray(WrongAnswer), AnswerArray(RightAnswers(1))}
StoreTimes == {JUndefined, JNum(0)} \cup {JNum(t) : t \in 2..MaxRawTime}

StoreBodies ==
  {Body(NameString(n), a, t) : n \in StoreNames, a \in StoreAnswers, t \in StoreTimes}

(***************************************************************************)
(* The server handling one request at a time, from a fresh deployment.     *)
(***************************************************************************)
noResponse ==
  [route |-> "none", status |-> 0, keys |-> {}, error |-> "",
   score |-> 0, total |-> 0, leaderboard |-> <<>>]

noFile == [exists |-> FALSE, entries |-> <<>>]

\* no page is open
noPage == [page |-> "closed"]

\* no GET /api/quiz was received
noQuiz == [route |-> "none"]

\* the server alone, its requests not overlapping: no handler is suspended
\* between its read and its write, no page is open
ServerAlone ==
  /\ handlers = <<>>
  /\ ioLog = <<>>
  /\ quiz = noQuiz
  /\ state = noPage
  /\ elements = noPage
  /\ network = {}

Init ==
  /\ leaderboardFile = noFile
  /\ now = 0
  /\ req = noRequest
  /\ res = noResponse
  /\ last = noLocals
  /\ ServerAlone

Submit(body) ==
  LET h == handleSubmit(body, leaderboardFile, now)
  IN  /\ leaderboardFile' = h.file
      /\ req' = body
      /\ res' = h.res
      /\ last' = h.last
      /\ UNCHANGED now
      /\ UNCHANGED otherVars

GetLeaderboard ==
  LET h == handleLeaderboard(leaderboardFile)
  IN  /\ leaderboardFile' = h.file
      /\ req' = noRequest
      /\ res' = h.res
      /\ UNCHANGED <<now, last>>
      /\ UNCHANGED otherVars

Tick ==
  /\ now < MaxClock
  /\ now' = now + 1
  /\ UNCHANGED <<leaderboardFile, req, res, last>>
  /\ UNCHANGED otherVars

SubmitStore == \E body \in StoreBodies : Submit(body)

Next == SubmitStore \/ GetLeaderboard \/ Tick

Spec == Init /\ [][Next]_vars

(***************************************************************************)
(* The server on a leaderboard that is full or one entry short of it: the  *)
(* state after that many earlier players have submitted.  The upper half   *)
(* of them scored 1, the others 0, all in 0.01 s at time 0.                *)
(***************************************************************************)
Digit == <<"0", "1", "2", "3", "4", "5", "6", "7", "8", "9">>

EarlierName(i) == <<"p", Digit[(i \div 10) + 1], Digit[(i % 10) + 1]>>

EarlierEntry(i) ==
  [name |-> EarlierName(i), score |-> IF 2 * i <= LeaderboardLimit THEN 1 ELSE 0,
   totalQuestions |-> 1, totalTime |-> toFixed2(3), completedAt |-> 0]

EarlierBoard(n) == [i \in 1..n |-> EarlierEntry(i)]

FullNames == {<<"x">>}
FullTimes == {JUndefined, JNum(0), JNum(MaxRawTime)}

FullBodies ==
  {Body(NameString(n), a, t) : n \in FullNames, a \in StoreAnswers, t \in FullTimes}

InitFull ==
  /\ \E n \in {LeaderboardLimit - 1, LeaderboardLimit} :
       leaderboardFile = [exists |-> TRUE, entries |-> EarlierBoard(n)]
  /\ now = 0
  /\ req = noRequest
  /\ res = noResponse
  /\ last = noLocals
  /\ ServerAlone

SubmitFull == \E body \in FullBodies : Submit(body)

NextFull == SubmitFull \/ GetLeaderboard \/ Tick

SpecFull == InitFull /\ [][NextFull]_vars

(***************************************************************************)
(* One request, drawn from a wide set, handled once: the specification of  *)
(* the claims about validation and scoring.  The sets vary one part of the *)
(* body at a time.                                                         *)
(***************************************************************************)
NameChars == {"a", " ", "\t"}

ShortNames == UNION {[1..n -> NameChars] : n \in 0..MaxNameLen}

\* k letters, to bring a name up to the limit of 32 characters
Pad(k) == [i \in 1..k |-> "a"]

ProbeNames ==
  ShortNames \cup {Pad(k) \o s : k \in {NameLimit - 1, NameLimit}, s \in ShortNames}

ProbePlayerNames == {NameString(s) : s \in ProbeNames} \cup {NameUndefined, NameNumber}

\* an id no question of the bank has
UnknownId == 10 + BankSize + 1

ProbeItems ==
  {ObjItem(JNum(q), JNum(c)) : q \in questionIdSet \cup {UnknownId}, c \in 0..1}
    \cup {ObjItem(JString, JNum(0)), ObjItem(JNum(questions[1].id), JString)}
    \cup {NumItem(n) : n \in 0..1}
    \cup {OtherItem}

ProbeAnswers ==
  {NotArray} \cup {AnswerArray(items) : items \in UNION {[1..n -> ProbeItems] : n \in 0..MaxAnswers}}

ProbeTimes == {JUndefined, JString} \cup {JNum(t) : t \in (0 - 3)..MaxRawTime}

OnceBodies ==
  {MalformedBody, NullBody}
    \cup {Body(p, AnswerArray(RightAnswers(1)), JNum(0)) : p \in ProbePlayerNames}
    \cup {Body(NameString(<<"a">>), a, JNum(0)) : a \in ProbeAnswers}
    \cup {Body(NameString(<<"a">>), AnswerArray(RightAnswers(BankSize)), t) : t \in ProbeTimes}

\* the file is missing, or holds the entry of an earlier submit of player "a"
OnceFiles ==
  {noFile,
   [exists |-> TRUE,
    entries |-> <<[name |-> <<"a">>, score |-> 1, totalQuestions |-> 1,
                   totalTime |-> toFixed2(3), completedAt |-> 0]>>]}

InitOnce ==
  /\ leaderboardFile \in OnceFiles
  /\ now = 1
  /\ req \in OnceBodies
  /\ res = noResponse
  /\ last = noLocals
  /\ ServerAlone

\* the request received is handled, once
SubmitOnce == res = noResponse /\ Submit(req)

SpecOnce == InitOnce /\ [][SubmitOnce]_vars

(***************************************************************************)
(* The properties.                                                         *)
(***************************************************************************)
\* the step is the handling of a POST /api/submit: of the request it records
SubmitStep == Submit(req')

\* the list a handler reads from the file
Persisted(file) == IF file.exists THEN file.entries ELSE <<>>

Slots(entries, name) == {k \in 1..Len(entries) : entries[k].name = name}

\* e is the entry of a submission under name N with score S and time T at
\* clock c: the time is kept to 1/100 s (3 units), a missing time stays missing
IsEntryOf(e, N, S, T, c) ==
  /\ e.name = N
  /\ e.score = S
  /\ e.completedAt = c
  /\ IF T = NULL THEN e.totalTime = NULL
     ELSE e.totalTime # NULL /\ e.totalTime % 3 = 0
          /\ e.totalTime - T \in {0 - 1, 0, 1}

\* the replace condition of the merge rule, as the specification words it
ReplaceCondition(S, T, current) ==
  \/ S > current.score
  \/ S = current.score /\ T # NULL /\ current.totalTime # NULL /\ T < current.totalTime

MergeRuleStep ==
  LET before == Persisted(leaderboardFile)
      after == last'.leaderboard
      N == last'.name
      S == last'.score
      T == last'.totalTime
      slots == Slots(before, N)
  IN  last'.accepted =>
        /\ N = sanitizeName(req'.playerName.s)
        /\ S = res'.score
        /\ IF slots = {}
           THEN /\ Len(after) = Len(before) + 1
                /\ SubSeq(after, 1, Len(before)) = before
                /\ IsEntryOf(after[Len(after)], N, S, T, now)
           ELSE \A k \in slots :
                  IF ReplaceCondition(S, T, before[k])
                  THEN /\ IsEntryOf(after[k], N, S, T, now)
                       /\ after = [before EXCEPT ![k] = after[k]]
                  ELSE after = before

\* C1: an accepted submit under name N with score S and time T appends its
\* entry when the leaderboard read has no entry named N; otherwise it replaces
\* the entry `current` of N if and only if S > current.score, or
\* S = current.score, T and current.totalTime are both non-null and
\* T < current.totalTime (T is the submitted time, as validated); in every
\* other case the list is left as read.
MergeRule == [][SubmitStep => MergeRuleStep]_vars

\* a submit replaced an entry of equal score by a faster one, and the next
\* submit for the same score without a time was discarded
MergeRuleWitness ==
  /\ last.accepted /\ last.existingIndex >= 0
  /\ ~last.isBetterScore /\ ~last.isFaster
  /\ last.totalTime = NULL
  /\ last.leaderboard = leaderboardFile.entries
  /\ \E k \in Slots(leaderboardFile.entries, last.name) :
       /\ leaderboardFile.entries[k].score = last.score
       /\ leaderboardFile.entries[k].totalTime = 0
       /\ leaderboardFile.entries[k].completedAt > 0

NoDuplicateNames(entries) ==
  \A i, j \in 1..Len(entries) : entries[i].name = entries[j].name => i = j

\* C2: the persisted leaderboard, and the one a response carries, holds at most
\* one entry per sanitized player name.
OneEntryPerName ==
  /\ NoDuplicateNames(Persisted(leaderboardFile))
  /\ NoDuplicateNames(res.leaderboard)

\* both players are on the leaderboard and the last submit, sent under the
\* other spelling of a name, found that name's slot
OneEntryPerNameWitness ==
  /\ last.accepted /\ last.existingIndex >= 0
  /\ req.playerName.s = <<" ", "a">>
  /\ Len(leaderboardFile.entries) = 2

\* C3: the persisted leaderboard, and every leaderboard a response carries,
\* holds at most 25 entries.
AtMostLimitEntries ==
  /\ Len(Persisted(leaderboardFile)) <= LeaderboardLimit
  /\ Len(res.leaderboard) <= LeaderboardLimit

\* a submit merged a 26th entry and wrote 25
AtMostLimitEntriesWitness ==
  /\ last.accepted /\ res.route = "submit"
  /\ Len(last.leaderboard) = LeaderboardLimit + 1
  /\ Len(leaderboardFile.entries) = LeaderboardLimit
  /\ Len(res.leaderboard) = LeaderboardLimit

\* a ranks no lower than b: higher score, then lower time (an entry without a
\* time counts as time 0, as in the comparator), then earlier completion
RanksBefore(a, b) ==
  \/ a.score > b.score
  \/ a.score = b.score /\ toNumber(a.totalTime) < toNumber(b.totalTime)
  \/ a.score = b.score /\ toNumber(a.totalTime) = toNumber(b.totalTime)
       /\ a.completedAt <= b.completedAt

Ranked(entries) == \A i, j \in 1..Len(entries) : i < j => RanksBefore(entries[i], entries[j])

Count(entries, e) == Cardinality({k \in 1..Len(entries) : entries[k] = e})

\* top is the first 25 entries of a ranking of all: it is ranked, it holds
\* entries of all, and every entry it leaves out ranks behind all it holds
IsTopOf(top, all) ==
  /\ Len(top) = Min(LeaderboardLimit, Len(all))
  /\ Ranked(top)
  /\ \A i \in 1..Len(top) : Count(top, top[i]) <= Count(all, top[i])
  /\ \A k \in 1..Len(all) :
       Count(all, all[k]) > Count(top, all[k])
         => \A i \in 1..Len(top) : RanksBefore(top[i], all[k])

ExampleEntry(score, seconds, at) ==
  [name |-> <<"e", Digit[at + 1]>>, score |-> score, totalQuestions |-> 5,
   totalTime |-> seconds * 300, completedAt |-> at]

RankingExample ==
  sortLeaderboard(<<ExampleEntry(5, 30, 1), ExampleEntry(5, 20, 2), ExampleEntry(3, 5, 3)>>)
    = <<ExampleEntry(5, 20, 2), ExampleEntry(5, 30, 1), ExampleEntry(3, 5, 3)>>


\* C4: every leaderboard written by submit or returned in a response is
\* ordered by descending score, then ascending totalTime, then ascending
\* completedAt, and is the first 25 entries of that order of the list it was
\* made from; (5,30), (5,20), (3,5) are ranked (5,20), (5,30), (3,5).
RankedAndTrimmed ==
  /\ Ranked(Persisted(leaderboardFile))
  /\ Ranked(res.leaderboard)
  /\ res.route = "submit" /\ res.status = 200
       => /\ IsTopOf(res.leaderboard, last.leaderboard)
          /\ leaderboardFile.entries = res.leaderboard
  /\ res.route = "leaderboard" => IsTopOf(res.leaderboard, Persisted(leaderboardFile))
  /\ RankingExample

\* a submit ranked its entry first among 26 and the last entry was dropped
RankedAndTrimmedWitness ==
  /\ res.route = "submit" /\ res.status = 200
  /\ Len(last.leaderboard) = LeaderboardLimit + 1
  /\ last.leaderboard[LeaderboardLimit + 1].name = <<"x">>
  /\ res.leaderboard[1].name = <<"x">>
  /\ \A k \in 1..LeaderboardLimit : res.leaderboard[k] # last.leaderboard[LeaderboardLimit]

\* the last accepted submit wrote its own entry (appended it or replaced with it)
WroteOwnEntry(l) == l.accepted /\ (l.existingIndex < 0 \/ l.isBetterScore \/ l.isFaster)

ResubmitStep ==
  ( /\ WroteOwnEntry(last)
    /\ last'.accepted
    /\ last'.name = last.name
    /\ last'.score = last.score
    /\ last'.totalTime = last.totalTime )
  => /\ leaderboardFile' = leaderboardFile
     /\ Cardinality(Slots(leaderboardFile'.entries, last.name)) = 1
     /\ \A k \in Slots(leaderboardFile'.entries, last.name) :
          leaderboardFile'.entries[k].score = last.score

\* C5: submitting the same (name, score, time) again, right after a submit
\* that stored it, leaves exactly one entry for the name, with that score, and
\* changes nothing in the persisted leaderboard.
ResubmitChangesNothing == [][SubmitStep => ResubmitStep]_vars


(***************************************************************************)
(* Properties of validation and scoring, of one request handled once.      *)
(***************************************************************************)
\* the question an answers entry refers to and the choice it gives: an object
\* by its fields, a bare number by its position in the bank
EntryWellFormed(item, k) ==
  \/ item.t = "object" /\ item.questionId.t = "number" /\ item.choiceIndex.t = "number"
  \/ item.t = "number" /\ k <= BankSize

EntryQuestionId(item, k) == IF item.t = "object" THEN item.questionId.v ELSE questions[k].id

EntryChoice(item) == IF item.t = "object" THEN item.choiceIndex.v ELSE item.v

BankIds == {questions[i].id : i \in 1..BankSize}

AnswerOf(id) == (CHOOSE q \in {questions[i] : i \in 1..BankSize} : q.id = id).answer

\* the answers are a non-empty array of well-formed entries for distinct
\* questions of the bank
AnswersValid(answers) ==
  /\ answers.isArray
  /\ Len(answers.items) >= 1
  /\ \A k \in 1..Len(answers.items) :
       /\ EntryWellFormed(answers.items[k], k)
       /\ EntryQuestionId(answers.items[k], k) \in BankIds
  /\ \A j, k \in 1..Len(answers.items) :
       EntryQuestionId(answers.items[j], j) = EntryQuestionId(answers.items[k], k) => j = k

CorrectEntries(answers) ==
  {k \in 1..Len(answers.items) :
     EntryChoice(answers.items[k]) = AnswerOf(EntryQuestionId(answers.items[k], k))}

\* C6: the score of an accepted submission is the number of its entries whose
\* choice is the answer of the question they refer to, the total is the number
\* of entries, and 0 <= score <= total <= bankSize.
ScoreCountsCorrectEntries ==
  res.status = 200 =>
    /\ res.score = Cardinality(CorrectEntries(req.answers))
    /\ res.total = Len(req.answers.items)
    /\ 0 <= res.score /\ res.score <= res.total /\ res.total <= BankSize
    /\ {"score", "total"} \subseteq res.keys

\* two entries were accepted, one right and one wrong
ScoreCountsCorrectEntriesWitness ==
  /\ res.status = 200 /\ res.score = 1 /\ res.total = 2
  /\ BankSize > res.total - 1
  /\ Cardinality(CorrectEntries(req.answers)) = 1

\* C7: a submission is accepted only if its answers are a non-empty array of
\* well-formed entries for pairwise distinct questions of the bank; otherwise
\* the request is rejected with a validation error that carries no score.
AnswersAllOrNothing ==
  res.route = "submit" =>
    /\ res.status = 200 => AnswersValid(req.answers)
    /\ ~AnswersValid(req.answers) =>
         /\ res.status = 400
         /\ res.keys = {"error"}
         /\ ~last.accepted

\* a request whose second entry repeats the question of its valid first entry
\* was rejected
AnswersAllOrNothingWitness ==
  /\ res.status = 400 /\ res.error = "answers"
  /\ Len(req.answers.items) = 2
  /\ AnswersValid(AnswerArray(<<req.answers.items[1]>>))
  /\ req.answers.items[2].t = "object"
  /\ req.answers.items[2].questionId = req.answers.items[1].questionId
  /\ req.answers.items[2].choiceIndex.t = "number"

\* the words of a string: its maximal runs of characters that are not whitespace
RECURSIVE Words(_, _, _)
Words(s, k, word) ==
  IF k > Len(s) THEN (IF word = <<>> THEN <<>> ELSE <<word>>)
  ELSE IF IsSpace(s[k])
       THEN (IF word = <<>> THEN <<>> ELSE <<word>>) \o Words(s, k + 1, <<>>)
       ELSE Words(s, k + 1, Append(word, s[k]))

RECURSIVE JoinWords(_)
JoinWords(ws) ==
  IF ws = <<>> THEN <<>>
  ELSE IF Len(ws) = 1 THEN ws[1]
  ELSE ws[1] \o <<" ">> \o JoinWords(Tail(ws))

\* the words joined by single spaces, cut to 32 characters
ExpectedName(s) ==
  LET joined == JoinWords(Words(s, 1, <<>>))
  IN  [k \in 1..(IF Len(joined) < NameLimit THEN Len(joined) ELSE NameLimit) |-> joined[k]]

\* C8: the name of a submit is playerName with every whitespace run collapsed
\* to one space, both ends trimmed, cut to 32 characters; an empty result is
\* rejected with a validation error, any other is the name the entry is merged
\* and persisted under.
NameValidation ==
  res.route = "submit" /\ req.parse = "object" /\ req.playerName.t \in {"string", "undefined"}
    => LET expected == ExpectedName(req.playerName.s)
       IN  /\ expected = <<>> => res.status = 400 /\ res.error = "name" /\ res.keys = {"error"}
           /\ res.status = 200 =>
                /\ expected # <<>>
                /\ last.name = expected
                /\ Cardinality(Slots(last.leaderboard, expected)) = 1
                /\ Cardinality(Slots(leaderboardFile.entries, expected)) = 1

\* a name longer than 32 characters with a whitespace run was cut and accepted
NameValidationWitness ==
  /\ res.status = 200
  /\ Len(req.playerName.s) > NameLimit + 1
  /\ \E k \in 1..(Len(req.playerName.s) - 1) :
       IsSpace(req.playerName.s[k]) /\ IsSpace(req.playerName.s[k + 1])
  /\ Len(last.name) = NameLimit
  /\ last.name[NameLimit] = " "

EntryShape(e) ==
  /\ e.name # <<>>
  /\ Len(e.name) <= NameLimit
  /\ \A k \in 1..Len(e.name) : IsSpace(e.name[k]) => e.name[k] = " "
  /\ \A k \in 1..(Len(e.name) - 1) : ~(IsSpace(e.name[k]) /\ IsSpace(e.name[k + 1]))
  /\ e.score \in Nat
  /\ e.totalQuestions \in Nat /\ e.totalQuestions > 0
  /\ e.score <= e.totalQuestions
  /\ e.totalTime = NULL \/ e.totalTime >= 0

\* C9: every entry on the leaderboard has a non-empty name of at most 32
\* characters with no whitespace but single spaces, an integer score with
\* 0 <= score <= totalQuestions, totalQuestions > 0, and a totalTime that is
\* null or >= 0.
EntriesWellShaped ==
  /\ \A k \in 1..Len(Persisted(leaderboardFile)) : EntryShape(leaderboardFile.entries[k])
  /\ \A k \in 1..Len(res.leaderboard) : EntryShape(res.leaderboard[k])
  /\ \A k \in 1..Len(last.leaderboard) : EntryShape(last.leaderboard[k])

\* a submit with a negative time wrote an entry without a time
EntriesWellShapedWitness ==
  /\ res.status = 200
  /\ req.totalTime.t = "number" /\ req.totalTime.v < 0
  /\ \E k \in 1..Len(leaderboardFile.entries) :
       /\ leaderboardFile.entries[k].completedAt = now
       /\ leaderboardFile.entries[k].totalTime = NULL
       /\ leaderboardFile.entries[k].score = BankSize

\* the request fails validation: its body is no JSON object, its name is no
\* string or is empty once sanitized, or its answers are not valid
FailsValidation(body) ==
  \/ body.parse # "object"
  \/ body.playerName.t # "string"
  \/ ExpectedName(body.playerName.s) = <<>>
  \/ ~AnswersValid(body.answers)

RejectedStep ==
  /\ FailsValidation(req') =>
       /\ res'.status = 400
       /\ res'.keys = {"error"}
       /\ res'.error \in {"name", "answers", "unknown", "format"}
  /\ res'.status = 400 => leaderboardFile' = leaderboardFile

\* C10: a submit request that fails validation is answered with status 400 and
\* an error message, and the leaderboard file is left as it was: it is neither
\* read (a missing file stays missing) nor written.
RejectedLeavesStore == [][SubmitStep => RejectedStep]_vars

\* a body that is not JSON was answered 400 and the file is still missing
RejectedLeavesStoreWitness ==
  /\ req.parse = "error"
  /\ res.status = 400 /\ res.error = "format"
  /\ ~leaderboardFile.exists

(***************************************************************************)
(* Overlapping POST /api/submit requests.  A handler runs to its first     *)
(* await without interruption, is suspended while the file is read and     *)
(* again while it is written (lines 197 and 220), and nothing orders the   *)
(* handlers of different requests.  The read returns the list persisted    *)
(* at the instant of the read; the validation before it touches nothing    *)
(* shared, so a handler is two steps: from the request to the call of      *)
(* writeLeaderboard, and from the end of the write to the response.        *)
(* The write may fail (fs.promises.writeFile rejects): before anything was *)
(* written, or after the file was opened, which cuts it to nothing.        *)
(***************************************************************************)
MaxHandlers == 2

HandlerIds == 1..MaxHandlers

noOutcome == [res |-> noResponse, file |-> noFile, last |-> noLocals]

\* a handler is [pc, body, read, out, io, res]: read is the list its read
\* returned, out what it computed from it (out.file is the argument of
\* writeLeaderboard, out.res the response of line 222), io how its write
\* ended, res the response it sent
idleHandler ==
  [pc |-> "idle", body |-> noRequest, read |-> <<>>, out |-> noOutcome,
   io |-> "none", res |-> noResponse]

\* a file cut to nothing, or holding a part of the text written: JSON.parse
\* throws on it and readLeaderboard returns [] (lines 30, 36-37), as it does
\* for the text '[]'
tornFile == [exists |-> TRUE, entries |-> <<>>]

\* the file after a writeFile that rejected
failedWrite(file, outcome) == IF outcome = "kept" THEN file ELSE tornFile

\* a handler that merges into the list persisted when its write begins
pendingWriteFresh(handler, file, clock) ==
  handleSubmit(handler.body, file, clock).file

\* line 220: the argument of writeLeaderboard is the list `sorted`, computed
\* before the await from the list the handler read
pendingWrite(handler, file, clock) == handler.out.file

\* lines 227-230: the catch answers any exception of the try block
catchSubmit == rejectSubmit(noFile, "format").res

AsyncNames == {<<"a">>, <<"b">>}

AsyncBodies ==
  {Body(NameString(n), a, JNum(0)) : n \in AsyncNames, a \in StoreAnswers}
    \cup {MalformedBody}

\* the leaderboard before the requests: none yet, or one entry
AsyncFiles ==
  {noFile,
   [exists |-> TRUE,
    entries |-> <<[name |-> <<"a">>, score |-> 0, totalQuestions |-> 1,
                   totalTime |-> toFixed2(3), completedAt |-> 0]>>]}

InitAsync ==
  /\ leaderboardFile \in AsyncFiles
  /\ now = 0
  /\ req = noRequest
  /\ res = noResponse
  /\ last = noLocals
  /\ handlers = [h \in HandlerIds |-> idleHandler]
  /\ ioLog = <<>>
  /\ quiz = noQuiz
  /\ state = noPage
  /\ elements = noPage
  /\ network = {}

\* the request arrives and is handled up to the call of writeLeaderboard, or
\* to the response when it is rejected
BeginSubmit(h, body) ==
  /\ handlers[h].pc = "idle"
  /\ LET out == handleSubmit(body, leaderboardFile, now)
         read == readLeaderboard(leaderboardFile)
     IN  IF out.res.status = 200
         THEN /\ handlers' = [handlers EXCEPT ![h] =
                   [pc |-> "writing", body |-> body, read |-> read.entries,
                    out |-> out, io |-> "none", res |-> noResponse]]
              /\ leaderboardFile' = read.file
              /\ ioLog' = Append(ioLog, [op |-> "read", handler |-> h])
              /\ UNCHANGED <<req, res, last>>
         ELSE /\ handlers' = [handlers EXCEPT ![h] =
                   [pc |-> "done", body |-> body, read |-> <<>>,
                    out |-> out, io |-> "none", res |-> out.res]]
              /\ leaderboardFile' = out.file
              /\ req' = body
              /\ res' = out.res
              /\ last' = out.last
              /\ UNCHANGED ioLog
  /\ UNCHANGED <<now, quiz, state, elements, network>>

\* the write ends and the handler answers with line 222
EndSubmit(h) ==
  /\ handlers[h].pc = "writing"
  /\ handlers' = [handlers EXCEPT ![h].pc = "done", ![h].io = "written",
                                  ![h].res = handlers[h].out.res]
  /\ leaderboardFile' = pendingWrite(handlers[h], leaderboardFile, now)
  /\ ioLog' = Append(ioLog, [op |-> "write", handler |-> h])
  /\ req' = handlers[h].body
  /\ res' = handlers[h].out.res
  /\ last' = handlers[h].out.last
  /\ UNCHANGED <<now, quiz, state, elements, network>>

\* the write fails and the catch of line 227 answers
FailSubmit(h) ==
  /\ handlers[h].pc = "writing"
  /\ \E outcome \in {"kept", "torn"} :
       leaderboardFile' = failedWrite(leaderboardFile, outcome)
  /\ handlers' = [handlers EXCEPT ![h].pc = "done", ![h].io = "failed",
                                  ![h].res = catchSubmit]
  /\ ioLog' = Append(ioLog, [op |-> "failed", handler |-> h])
  /\ req' = handlers[h].body
  /\ res' = catchSubmit
  /\ last' = noLocals
  /\ UNCHANGED <<now, quiz, state, elements, network>>

BeginSome == \E h \in HandlerIds, body \in AsyncBodies : BeginSubmit(h, body)

EndSome == \E h \in HandlerIds : EndSubmit(h)

FailSome == \E h \in HandlerIds : FailSubmit(h)

NextAsync == BeginSome \/ EndSome \/ FailSome \/ Tick

SpecAsync == InitAsync /\ [][NextAsync]_vars

(***************************************************************************)
(* Properties of overlapping submits.                                      *)
(***************************************************************************)
\* the step ends handler h with a failed write of the leaderboard
WriteFailedStep(h) == handlers[h].pc = "writing" /\ handlers'[h].io = "failed"

PersistFailureStep ==
  \A h \in HandlerIds :
    WriteFailedStep(h) =>
      /\ handlers'[h].res.status \in 500..599
      /\ leaderboardFile' = leaderboardFile

\* C11: a submit whose write of the leaderboard fails is answered with a
\* status of the 500 class, and the leaderboard persisted before the request
\* is still in place.
PersistFailureIsInternalError == [][PersistFailureStep]_vars

Names(entries) == {entries[k].name : k \in 1..Len(entries)}

Logged(op, h) == \E k \in 1..Len(ioLog) : ioLog[k] = [op |-> op, handler |-> h]

LogPos(op, h) == CHOOSE k \in 1..Len(ioLog) : ioLog[k] = [op |-> op, handler |-> h]

\* both handlers read before either wrote, and h1 wrote first
ReadBeforeEitherWrote(h1, h2) ==
  /\ h1 # h2
  /\ Logged("write", h1) /\ Logged("write", h2)
  /\ LogPos("read", h2) < LogPos("write", h1)
  /\ LogPos("write", h1) < LogPos("write", h2)

\* nothing touched the file after the write of h
WroteLast(h) ==
  /\ Logged("write", h)
  /\ \A k \in 1..Len(ioLog) : k > LogPos("write", h) => ioLog[k].op = "read"

\* the entries of a list under other names than N are entries of the list `from`
OthersFrom(entries, N, from) ==
  \A k \in 1..Len(entries) :
    entries[k].name # N => \E j \in 1..Len(from) : from[j] = entries[k]

\* C12: when two submit handlers both read the leaderboard before either
\* writes, both are answered 200, each with the merge of its entry into the
\* list it read, and after the later write the persisted leaderboard is the
\* later writer's list: it holds the first writer's entry only if the list
\* read before the update held one under that name.
LostUpdate ==
  \A h1, h2 \in HandlerIds :
    ReadBeforeEitherWrote(h1, h2) =>
      LET first == handlers[h1]
          later == handlers[h2]
      IN  /\ first.res.status = 200 /\ later.res.status = 200
          /\ first.out.last.name \in Names(first.res.leaderboard)
          /\ OthersFrom(first.res.leaderboard, first.out.last.name, first.read)
          /\ OthersFrom(later.res.leaderboard, later.out.last.name, later.read)
          /\ WroteLast(h2) =>
               /\ leaderboardFile.entries = later.res.leaderboard
               /\ first.out.last.name \notin Names(later.read) \cup {later.out.last.name}
                    => first.out.last.name \notin Names(leaderboardFile.entries)

\* two players submitted, both read the list before either wrote, both were
\* answered 200 with a leaderboard holding their entry, and the persisted
\* leaderboard has no entry of the first writer
LostUpdateWitness ==
  \E h1, h2 \in HandlerIds :
    /\ ReadBeforeEitherWrote(h1, h2)
    /\ WroteLast(h2)
    /\ handlers[h1].res.status = 200 /\ handlers[h2].res.status = 200
    /\ handlers[h1].out.last.name # handlers[h2].out.last.name
    /\ handlers[h1].out.last.name \in Names(handlers[h1].res.leaderboard)
    /\ handlers[h1].out.last.name \notin Names(leaderboardFile.entries)
    /\ handlers[h2].out.last.name \in Names(leaderboardFile.entries)

(***************************************************************************)
(* GET /api/quiz (lines 143-148): clampQuestionCount, shuffleQuestions.    *)
(* The query value is url.searchParams.get('limit'): null, or a string.    *)
(***************************************************************************)
DEFAULT_QUESTION_COUNT == 10

MaxLimitLen == 3

LimitNull == [t |-> "null", s |-> <<>>]

LimitString(s) == [t |-> "string", s |-> s]

IsDigit(c) == \E k \in 1..10 : Digit[k] = c

DigitValue(c) == (CHOOSE k \in 1..10 : Digit[k] = c) - 1

AllDigits(s) == \A k \in 1..Len(s) : IsDigit(s[k])

RECURSIVE digitsValue(_, _)
digitsValue(s, acc) ==
  IF s = <<>> THEN acc ELSE digitsValue(Tail(s), 10 * acc + DigitValue(Head(s)))

RECURSIVE Pow10(_)
Pow10(n) == IF n = 0 THEN 1 ELSE 10 * Pow10(n - 1)

\* s.indexOf(c) + 1: the first position of c in s, 0 when there is none
indexOf(s, c) ==
  IF \E k \in 1..Len(s) : s[k] = c
  THEN CHOOSE k \in 1..Len(s) : s[k] = c /\ \A j \in 1..(k - 1) : s[j] # c
  ELSE 0

NaN == [finite |-> FALSE, trunc |-> 0]

\* Math.trunc(Number(s)) for the decimal literals without exponent: white
\* space around the literal is dropped, the empty literal is 0, a sign may
\* lead, then digits with at most one point and at least one digit; any
\* other text is NaN.  trunc drops the digits behind the point.
NumberOf(s) ==
  LET t == trim(s)
      signed == t # <<>> /\ Head(t) \in {"-", "+"}
      u == IF signed THEN Tail(t) ELSE t
      dot == indexOf(u, ".")
      int == IF dot = 0 THEN u ELSE SubSeq(u, 1, dot - 1)
      frac == IF dot = 0 THEN <<>> ELSE SubSeq(u, dot + 1, Len(u))
  IN  IF t = <<>> THEN [finite |-> TRUE, trunc |-> 0]
      ELSE IF AllDigits(int) /\ AllDigits(frac) /\ (int # <<>> \/ frac # <<>>)
      THEN [finite |-> TRUE,
            trunc |-> (IF signed /\ Head(t) = "-" THEN 0 - 1 ELSE 1) * digitsValue(int, 0)]
      ELSE NaN

\* the clamp without its lower end
clampQuestionCountNoFloor(value) ==
  IF value.t = "null" \/ value.s = <<>>
  THEN DEFAULT_QUESTION_COUNT
  ELSE LET parsed == NumberOf(value.s)
       IN  IF ~parsed.finite THEN DEFAULT_QUESTION_COUNT
           ELSE IF parsed.trunc > Len(questions) THEN Len(questions)
           ELSE parsed.trunc

\* lines 120-140
clampQuestionCount(value) ==
  IF value.t = "null" \/ value.s = <<>>
  THEN DEFAULT_QUESTION_COUNT
  ELSE LET parsed == NumberOf(value.s)
       IN  IF ~parsed.finite THEN DEFAULT_QUESTION_COUNT
           ELSE IF parsed.trunc < 1 THEN 1
           ELSE IF parsed.trunc > Len(questions) THEN Len(questions)
           ELSE parsed.trunc

\* the draws of Math.floor(Math.random() * (i + 1)) of one shuffle of n
\* elements: draws[i] is the index j drawn for the index i, 0 <= j <= i
Draws(n) == {d \in [1..(n - 1) -> 0..(n - 1)] : \A i \in 1..(n - 1) : d[i] <= i}

\* [copy[i], copy[j]] = [copy[j], copy[i]] on 0-based indices
swap(copy, i, j) == [copy EXCEPT ![i + 1] = copy[j + 1], ![j + 1] = copy[i + 1]]

RECURSIVE shuffleFrom(_, _, _)

\* a shuffle that overwrites copy[i] with copy[j] instead of swapping them
shuffleFromOverwriting(copy, i, draws) ==
  IF i > 0
  THEN shuffleFrom([copy EXCEPT ![i + 1] = copy[draws[i] + 1]], i - 1, draws)
  ELSE copy

\* the loop of lines 112-115, from index i down
shuffleFrom(copy, i, draws) ==
  IF i > 0 THEN shuffleFrom(swap(copy, i, draws[i]), i - 1, draws) ELSE copy

\* lines 106-118 (and part_000, lines 600-612): Fisher-Yates on a copy
shuffleQuestions(list, draws) == shuffleFrom(list, Len(list) - 1, draws)

\* slice(0, n) of an array; a negative n counts from the end
sliceArray(list, n) ==
  LET end == IF n < 0
             THEN (IF Len(list) + n < 0 THEN 0 ELSE Len(list) + n)
             ELSE Min(n, Len(list))
  IN  SubSeq(list, 1, end)

\* lines 143-148; limit is the handler's local
handleQuiz(query, draws) ==
  LET limit == clampQuestionCount(query)
      selected == sliceArray(shuffleQuestions(questions, draws), limit)
  IN  [route |-> "quiz", query |-> query, limit |-> limit, status |-> 200,
       questions |-> selected, total |-> Len(selected)]

\* query values: every text of up to MaxLimitLen characters out of digits, a
\* sign, a point, white space and a letter
LimitChars == {"0", "1", "2", "9", "-", ".", " ", "q"}

LimitTexts == UNION {[1..n -> LimitChars] : n \in 0..MaxLimitLen}

QuizQueries == {LimitNull} \cup {LimitString(s) : s \in LimitTexts}

\* a GET /api/quiz request received and not handled yet
quizRequest(query) == [route |-> "request", query |-> query]

InitQuiz ==
  /\ leaderboardFile = noFile
  /\ now = 0
  /\ req = noRequest
  /\ res = noResponse
  /\ last = noLocals
  /\ handlers = <<>>
  /\ ioLog = <<>>
  /\ quiz \in {quizRequest(query) : query \in QuizQueries}
  /\ state = noPage
  /\ elements = noPage
  /\ network = {}

\* the request received is handled, once
GetQuiz ==
  /\ quiz.route = "request"
  /\ \E draws \in Draws(BankSize) : quiz' = handleQuiz(quiz.query, draws)
  /\ UNCHANGED <<serverVars, handlers, ioLog, state, elements, network>>

SpecQuiz == InitQuiz /\ [][GetQuiz]_vars

(***************************************************************************)
(* Properties of GET /api/quiz.                                            *)
(***************************************************************************)
\* n clamped to [1, bankSize]
ClampToBank(n) == IF n < 1 THEN 1 ELSE IF n > BankSize THEN BankSize ELSE n

\* the number a text of digits denotes
RECURSIVE PlaceValue(_)
PlaceValue(s) ==
  IF s = <<>> THEN 0
  ELSE DigitValue(Head(s)) * Pow10(Len(s) - 1) + PlaceValue(Tail(s))

IsDigits(s) == s # <<>> /\ \A k \in 1..Len(s) : s[k] \in {Digit[d] : d \in 1..10}

\* the text has no digit at all and is not blank
NoNumber(s) ==
  /\ \A k \in 1..Len(s) : ~IsDigits(<<s[k]>>)
  /\ \E k \in 1..Len(s) : ~IsSpace(s[k])

NumChoices == 2

MaxInFlight == 1

Choices == 0..(NumChoices - 1)

\* feedback[i] === null
noFeedback == [status |-> "none", message |-> NULL]

\* lines 418-428
initialState ==
  [originalQuestions |-> <<>>, questions |-> <<>>, answers |-> <<>>, feedback |-> <<>>,
   currentIndex |-> 0, startTime |-> NULL, timerInterval |-> NULL,
   selectedQuestionCount |-> DEFAULT_QUESTION_COUNT, isFetchingQuestions |-> FALSE]

\* the document as loaded: the intro is shown, the quiz and the result are
\* hidden (lines 826-827 and 796-797 are what swaps them); whether the two
\* quiz buttons start disabled, and whether the select of the question count
\* is part of the intro's form, is the markup's choice
initialElements(nextDisabled, prevDisabled, selectInForm) ==
  [introHidden |-> FALSE, quizHidden |-> TRUE, resultHidden |-> TRUE,
   nextDisabled |-> nextDisabled, prevDisabled |-> prevDisabled, nextLabel |-> "next",
   startDisabled |-> FALSE, selectDisabled |-> FALSE, selectInForm |-> selectInForm,
   questionText |-> "none", choicesShown |-> FALSE, feedbackShown |-> "none",
   resultText |-> "none", timer |-> 0, nameInput |-> <<>>]

\* String(n) of a non-negative integer
RECURSIVE numberToString(_)
numberToString(n) ==
  IF n < 10 THEN <<Digit[n + 1]>>
  ELSE numberToString(n \div 10) \o <<Digit[(n % 10) + 1]>>

quizFetch(limit) == [kind |-> "quiz", limit |-> numberToString(limit), body |-> noRequest]

submitFetch(body) == [kind |-> "submit", limit |-> <<>>, body |-> body]

\* state.answers[i] when it is a number, NULL otherwise (null or undefined)
answerAt(st, i) == IF i >= 0 /\ i < Len(st.answers) THEN st.answers[i + 1] ELSE NULL

\* state.feedback[i], or no feedback
feedbackAt(st, i) == IF i >= 0 /\ i < Len(st.feedback) THEN st.feedback[i + 1] ELSE noFeedback

\* lines 472-475 and 463-470: startTimer, with the renderTimer it calls
startTimer(p, clock) ==
  [p EXCEPT !.state.startTime = clock, !.state.timerInterval = 1, !.elements.timer = 0]

\* lines 477-482
stopTimer(p) == [p EXCEPT !.state.timerInterval = NULL]

\* the tick that starts the measurement anew
renderTimerRestarting(p, clock) ==
  [p EXCEPT !.state.startTime = clock, !.elements.timer = 0]

\* lines 463-470; Date.now() is never 0, so !state.startTime is startTime === null
renderTimer(p, clock) ==
  [p EXCEPT !.elements.timer = IF p.state.startTime = NULL THEN 0
                               ELSE clock - p.state.startTime]

\* the update that enables the next button whenever there are questions
updateNavigationButtonsAlwaysNext(p) ==
  IF Len(p.state.questions) = 0
  THEN [p EXCEPT !.elements.prevDisabled = TRUE, !.elements.nextDisabled = TRUE,
                 !.elements.nextLabel = "next"]
  ELSE [p EXCEPT !.elements.prevDisabled = (p.state.currentIndex = 0),
                 !.elements.nextLabel =
                   IF p.state.currentIndex = Len(p.state.questions) - 1
                   THEN "result" ELSE "next",
                 !.elements.nextDisabled = FALSE]

\* lines 484-496
updateNavigationButtons(p) ==
  IF Len(p.state.questions) = 0
  THEN [p EXCEPT !.elements.prevDisabled = TRUE, !.elements.nextDisabled = TRUE,
                 !.elements.nextLabel = "next"]
  ELSE [p EXCEPT !.elements.prevDisabled = (p.state.currentIndex = 0),
                 !.elements.nextLabel =
                   IF p.state.currentIndex = Len(p.state.questions) - 1
                   THEN "result" ELSE "next",
                 !.elements.nextDisabled = (answerAt(p.state, p.state.currentIndex) = NULL)]

\* lines 510-526
updateFeedbackDisplay(p) ==
  [p EXCEPT !.elements.feedbackShown = feedbackAt(p.state, p.state.currentIndex).status]

\* lines 528-562: a button per choice of the question
renderChoices(p) == [p EXCEPT !.elements.choicesShown = TRUE]

\* the rendering that leaves the two buttons as the last question set them
renderQuestionKeepsButtons(p) ==
  IF p.state.currentIndex >= Len(p.state.questions)
  THEN updateFeedbackDisplay([p EXCEPT !.elements.questionText = "missing",
                                       !.elements.choicesShown = FALSE])
  ELSE updateFeedbackDisplay(renderChoices(
         [p EXCEPT !.elements.questionText = "question"]))

\* lines 584-598
renderQuestion(p) ==
  IF p.state.currentIndex >= Len(p.state.questions)
  THEN updateFeedbackDisplay([p EXCEPT !.elements.questionText = "missing",
                                       !.elements.choicesShown = FALSE])
  ELSE updateFeedbackDisplay(updateNavigationButtons(renderChoices(
         [p EXCEPT !.elements.questionText = "question"])))

\* the selection that takes the first choice for the right one
handleChoiceSelectionFirstIsRight(p, selectedIndex) ==
  IF p.state.currentIndex >= Len(p.state.questions)
  THEN p
  ELSE LET i == p.state.currentIndex + 1
           question == p.state.questions[i]
           isCorrect == selectedIndex = 0
       IN  updateFeedbackDisplay(updateNavigationButtons(renderChoices(
             [p EXCEPT !.state.answers[i] = selectedIndex,
                       !.state.feedback[i] =
                         [status |-> IF isCorrect THEN "correct" ELSE "incorrect",
                          message |-> IF isCorrect THEN NULL ELSE question.answer]])))

\* the selection that keeps the feedback of the choice made before
handleChoiceSelectionKeepsFeedback(p, selectedIndex) ==
  IF p.state.currentIndex >= Len(p.state.questions)
  THEN p
  ELSE LET i == p.state.currentIndex + 1
           question == p.state.questions[i]
           isCorrect == selectedIndex = question.answer
           given == [status |-> IF isCorrect THEN "correct" ELSE "incorrect",
                     message |-> IF isCorrect THEN NULL ELSE question.answer]
       IN  updateFeedbackDisplay(updateNavigationButtons(renderChoices(
             [p EXCEPT !.state.answers[i] = selectedIndex,
                       !.state.feedback[i] =
                         IF p.state.feedback[i] = noFeedback THEN given
                         ELSE p.state.feedback[i]])))

\* lines 564-582; the message names the right choice when the answer is wrong
handleChoiceSelection(p, selectedIndex) ==
  IF p.state.currentIndex >= Len(p.state.questions)
  THEN p
  ELSE LET i == p.state.currentIndex + 1
           question == p.state.questions[i]
           isCorrect == selectedIndex = question.answer
       IN  updateFeedbackDisplay(updateNavigationButtons(renderChoices(
             [p EXCEPT !.state.answers[i] = selectedIndex,
                       !.state.feedback[i] =
                         [status |-> IF isCorrect THEN "correct" ELSE "incorrect",
                          message |-> IF isCorrect THEN NULL ELSE question.answer]])))

\* new Array(n).fill(v)
filled(n, v) == [i \in 1..n |-> v]

\* the preparation that keeps the answers and the feedback of the last quiz
prepareNewQuizKeepsAnswers(p, draws) ==
  IF Len(p.state.originalQuestions) = 0
  THEN updateNavigationButtons(updateFeedbackDisplay(
         [p EXCEPT !.state.questions = <<>>, !.state.answers = <<>>,
                   !.state.feedback = <<>>, !.state.currentIndex = 0]))
  ELSE LET shuffled == shuffleQuestions(p.state.originalQuestions, draws)
           n == Len(shuffled)
       IN  renderQuestion(
             [p EXCEPT !.state.questions = shuffled,
                       !.state.answers =
                         IF Len(p.state.answers) = n THEN p.state.answers ELSE filled(n, NULL),
                       !.state.feedback =
                         IF Len(p.state.feedback) = n THEN p.state.feedback
                         ELSE filled(n, noFeedback),
                       !.state.currentIndex = 0])

\* lines 614-631
prepareNewQuiz(p, draws) ==
  IF Len(p.state.originalQuestions) = 0
  THEN updateNavigationButtons(updateFeedbackDisplay(
         [p EXCEPT !.state.questions = <<>>, !.state.answers = <<>>,
                   !.state.feedback = <<>>, !.state.currentIndex = 0]))
  ELSE LET shuffled == shuffleQuestions(p.state.originalQuestions, draws)
       IN  renderQuestion(
             [p EXCEPT !.state.questions = shuffled,
                       !.state.answers = filled(Len(shuffled), NULL),
                       !.state.feedback = filled(Len(shuffled), noFeedback),
                       !.state.currentIndex = 0])

\* lines 633-641
setQuizLoading(p, isLoading) ==
  [p EXCEPT !.state.isFetchingQuestions = isLoading,
            !.elements.startDisabled = isLoading,
            !.elements.selectDisabled = isLoading]

\* lines 643-651: fetchQuestions up to its await
fetchQuestions(p, limit) ==
  IF p.state.isFetchingQuestions
  THEN p
  ELSE LET loading == setQuizLoading(p, TRUE)
       IN  [loading EXCEPT !.network = Append(loading.network, quizFetch(limit))]

\* lines 652-679, 685-686: the response is ok and holds data
fetchQuestionsOk(p, data, draws) ==
  IF Len(data.questions) = 0
  THEN setQuizLoading([p EXCEPT !.elements.questionText = "failed",
                                !.elements.choicesShown = FALSE,
                                !.elements.nextDisabled = TRUE], FALSE)
  ELSE setQuizLoading(
         prepareNewQuiz([p EXCEPT !.state.originalQuestions = data.questions,
                                  !.state.selectedQuestionCount = data.total], draws),
         FALSE)

\* lines 680-686: the fetch failed or the response is not ok
fetchQuestionsFailed(p) ==
  setQuizLoading([p EXCEPT !.elements.questionText = "failed",
                           !.elements.choicesShown = FALSE,
                           !.elements.nextDisabled = TRUE], FALSE)

\* the payload that names the first question at every position
answerPayloadFirstId(st) ==
  [i \in 1..Len(st.questions) |->
     ObjItem(JNum(st.questions[1].id),
             IF answerAt(st, i - 1) = NULL THEN JUndefined ELSE JNum(answerAt(st, i - 1)))]

\* lines 757-760
answerPayload(st) ==
  [i \in 1..Len(st.questions) |->
     ObjItem(JNum(st.questions[i].id),
             IF answerAt(st, i - 1) = NULL THEN JUndefined ELSE JNum(answerAt(st, i - 1)))]

\* the submission without the test for unanswered questions
submitAnswersUnchecked(p, clock) ==
  LET stopped == stopTimer(p)
      totalTime == clock - (IF p.state.startTime = NULL THEN 0 ELSE p.state.startTime)
  IN  [stopped EXCEPT !.network =
         Append(stopped.network,
                submitFetch(Body(NameString(p.elements.nameInput),
                                 AnswerArray(answerPayload(p.state)), JNum(totalTime))))]

\* lines 753-780: submitAnswers up to its await
submitAnswers(p, clock) ==
  LET stopped == stopTimer(p)
      totalTime == clock - (IF p.state.startTime = NULL THEN 0 ELSE p.state.startTime)
      payload == answerPayload(p.state)
  IN  IF \E i \in 1..Len(payload) : payload[i].choiceIndex.t # "number"
      THEN [stopped EXCEPT !.elements.resultText = "unanswered",
                           !.elements.resultHidden = FALSE]
      ELSE [stopped EXCEPT !.network =
              Append(stopped.network,
                     submitFetch(Body(NameString(p.elements.nameInput),
                                      AnswerArray(payload), JNum(totalTime))))]

\* lines 787-797: the response is ok
submitAnswersOk(p) ==
  [p EXCEPT !.elements.resultText = "score", !.elements.quizHidden = TRUE,
            !.elements.resultHidden = FALSE]

\* the failure that shows the result in place of the quiz
submitAnswersFailedHidesQuiz(p) ==
  [p EXCEPT !.elements.resultText = "failed", !.elements.quizHidden = TRUE,
            !.elements.resultHidden = FALSE]

\* lines 782-785, 798-802: the fetch failed or the response is not ok
submitAnswersFailed(p) ==
  [p EXCEPT !.elements.resultText = "failed", !.elements.resultHidden = FALSE]

\* the reset that leaves the start time of the attempt before
resetQuizStateKeepsStart(p, draws, clock) ==
  LET prepared == stopTimer(prepareNewQuiz(p, draws))
  IN  [prepared EXCEPT !.state.timerInterval = 1, !.elements.timer = 0,
                       !.elements.resultHidden = TRUE,
                       !.elements.quizHidden = FALSE]

\* lines 805-813
resetQuizState(p, draws, clock) ==
  LET prepared == stopTimer(prepareNewQuiz(p, draws))
  IN  startTimer([prepared EXCEPT !.state.startTime = NULL, !.elements.timer = 0,
                                  !.elements.resultHidden = TRUE,
                                  !.elements.quizHidden = FALSE], clock)

\* the submit handler without the guard of lines 823-825
submitFormUnguarded(p, draws, clock) ==
  IF trim(p.elements.nameInput) = <<>>
  THEN p
  ELSE LET prepared == prepareNewQuiz(p, draws)
       IN  startTimer([prepared EXCEPT !.elements.introHidden = TRUE,
                                       !.elements.quizHidden = FALSE], clock)

\* lines 817-830: the submit handler of the form
submitForm(p, draws, clock) ==
  IF trim(p.elements.nameInput) = <<>>
  THEN p
  ELSE IF p.state.isFetchingQuestions \/ Len(p.state.originalQuestions) = 0
  THEN p
  ELSE LET prepared == prepareNewQuiz(p, draws)
       IN  startTimer([prepared EXCEPT !.elements.introHidden = TRUE,
                                       !.elements.quizHidden = FALSE], clock)

\* the handler without the test for the last position
clickNextAlwaysAdvances(p, clock) ==
  renderQuestion([p EXCEPT !.state.currentIndex = p.state.currentIndex + 1])

\* the handler that submits at every position
clickNextAlwaysSubmits(p, clock) == submitAnswers(p, clock)

\* the handler that does nothing at the last position
clickNextStaysAtLast(p, clock) ==
  IF p.state.currentIndex = Len(p.state.questions) - 1
  THEN p
  ELSE renderQuestion([p EXCEPT !.state.currentIndex = p.state.currentIndex + 1])

\* lines 832-839: the click handler of the next button
clickNext(p, clock) ==
  IF p.state.currentIndex = Len(p.state.questions) - 1
  THEN submitAnswers(p, clock)
  ELSE renderQuestion([p EXCEPT !.state.currentIndex = p.state.currentIndex + 1])

\* the handler that clears the answer of the position it leaves
clickPrevClearing(p) ==
  IF p.state.currentIndex = 0
  THEN p
  ELSE renderQuestion([p EXCEPT !.state.currentIndex = p.state.currentIndex - 1,
                                !.state.answers[p.state.currentIndex + 1] = NULL,
                                !.state.feedback[p.state.currentIndex + 1] = noFeedback])

\* lines 841-847: the click handler of the previous button
clickPrev(p) ==
  IF p.state.currentIndex = 0
  THEN p
  ELSE renderQuestion([p EXCEPT !.state.currentIndex = p.state.currentIndex - 1])

\* lines 849-853: the click handler of the retry button
clickRetry(p, draws, clock) ==
  resetQuizState([p EXCEPT !.elements.resultHidden = TRUE,
                           !.elements.quizHidden = FALSE], draws, clock)

\* lines 860-866: the change handler of the select; value is a number
changeQuestionCount(p, value) ==
  IF value > 0
  THEN fetchQuestions([p EXCEPT !.state.selectedQuestionCount = value], value)
  ELSE p

(***************************************************************************)
(* The page and the server it talks to.  The page is loaded: init() has    *)
(* set up the listeners and its first fetchQuestions is in flight (lines   *)
(* 882-887).  The server handles a GET /api/quiz of the page in one step;  *)
(* of a POST /api/submit the page sees whether the response is ok, and     *)
(* either may come whatever the server holds.                              *)
(***************************************************************************)
page == [state |-> state, elements |-> elements, network |-> network]

ShowPage(p) ==
  /\ state' = p.state
  /\ elements' = p.elements
  /\ network' = p.network

\* the request at position k of the network is settled and leaves it
settled(p, k) ==
  [p EXCEPT !.network = SubSeq(p.network, 1, k - 1) \o SubSeq(p.network, k + 1, Len(p.network))]

\* what the player may type as a name, and the values of the select's options
ClientNames == {<<"a">>, <<" ">>}

CountOptions == 1..(BankSize + 1)

InitClient ==
  /\ leaderboardFile = noFile
  /\ now = 0
  /\ req = noRequest
  /\ res = noResponse
  /\ last = noLocals
  /\ handlers = <<>>
  /\ ioLog = <<>>
  /\ quiz = noQuiz
  /\ \E nextDisabled \in BOOLEAN, prevDisabled \in BOOLEAN, selectInForm \in BOOLEAN :
       LET loaded == fetchQuestions(
                       [state |-> initialState,
                        elements |-> initialElements(nextDisabled, prevDisabled, selectInForm),
                        network |-> <<>>],
                       DEFAULT_QUESTION_COUNT)
       IN  /\ state = loaded.state
           /\ elements = loaded.elements
           /\ network = loaded.network

\* the player types a name
TypeName ==
  /\ ~elements.introHidden
  /\ \E name \in ClientNames : elements' = [elements EXCEPT !.nameInput = name]
  /\ UNCHANGED <<serverVars, handlers, ioLog, quiz, state, network>>

\* the player submits the form
SubmitForm ==
  /\ ~elements.introHidden
  /\ \E draws \in Draws(Len(state.originalQuestions)) : ShowPage(submitForm(page, draws, now))
  /\ UNCHANGED <<serverVars, handlers, ioLog, quiz>>

\* the player picks another question count
ChangeQuestionCount ==
  /\ ~elements.selectDisabled
  /\ elements.selectInForm => ~elements.introHidden
  /\ Len(network) < MaxInFlight
  /\ \E value \in CountOptions : ShowPage(changeQuestionCount(page, value))
  /\ UNCHANGED <<serverVars, handlers, ioLog, quiz>>

\* the player clicks a choice of the question shown
ClickChoice(index) ==
  /\ ~elements.quizHidden
  /\ elements.choicesShown
  /\ ShowPage(handleChoiceSelection(page, index))
  /\ UNCHANGED <<serverVars, handlers, ioLog, quiz>>

ClickSomeChoice == \E index \in Choices : ClickChoice(index)

ClickNext ==
  /\ ~elements.quizHidden
  /\ ~elements.nextDisabled
  /\ clickNext(page, now).network = network \/ Len(network) < MaxInFlight
  /\ ShowPage(clickNext(page, now))
  /\ UNCHANGED <<serverVars, handlers, ioLog, quiz>>

ClickPrev ==
  /\ ~elements.quizHidden
  /\ ~elements.prevDisabled
  /\ ShowPage(clickPrev(page))
  /\ UNCHANGED <<serverVars, handlers, ioLog, quiz>>

ClickRetry ==
  /\ ~elements.resultHidden
  /\ \E draws \in Draws(Len(state.originalQuestions)) : ShowPage(clickRetry(page, draws, now))
  /\ UNCHANGED <<serverVars, handlers, ioLog, quiz>>

\* the interval of line 475 fires
RenderTimer ==
  /\ state.timerInterval # NULL
  /\ ShowPage(renderTimer(page, now))
  /\ UNCHANGED <<serverVars, handlers, ioLog, quiz>>

\* the server answers a GET /api/quiz of the page
QuizFetchOk(k) ==
  /\ network[k].kind = "quiz"
  /\ \E serverDraws \in Draws(BankSize) :
       LET data == handleQuiz(LimitString(network[k].limit), serverDraws)
       IN  /\ quiz' = data
           /\ \E draws \in Draws(Len(data.questions)) :
                ShowPage(fetchQuestionsOk(settled(page, k), data, draws))
  /\ UNCHANGED <<serverVars, handlers, ioLog>>

\* a GET /api/quiz of the page fails
QuizFetchFailed(k) ==
  /\ network[k].kind = "quiz"
  /\ ShowPage(fetchQuestionsFailed(settled(page, k)))
  /\ UNCHANGED <<serverVars, handlers, ioLog, quiz>>

\* a POST /api/submit of the page is answered with an ok response
SubmitFetchOk(k) ==
  /\ network[k].kind = "submit"
  /\ ShowPage(submitAnswersOk(settled(page, k)))
  /\ UNCHANGED <<serverVars, handlers, ioLog, quiz>>

\* a POST /api/submit of the page fails, or its response is not ok
SubmitFetchFailed(k) ==
  /\ network[k].kind = "submit"
  /\ ShowPage(submitAnswersFailed(settled(page, k)))
  /\ UNCHANGED <<serverVars, handlers, ioLog, quiz>>

Settle ==
  \E k \in 1..Len(network) :
    \/ QuizFetchOk(k)
    \/ QuizFetchFailed(k)
    \/ SubmitFetchOk(k)
    \/ SubmitFetchFailed(k)

NextClient ==
  \/ TypeName
  \/ SubmitForm
  \/ ChangeQuestionCount
  \/ ClickSomeChoice
  \/ ClickNext
  \/ ClickPrev
  \/ ClickRetry
  \/ RenderTimer
  \/ Settle
  \/ Tick

SpecClient == InitClient /\ [][NextClient]_vars

(***************************************************************************)
(* Properties of the quiz page.                                            *)
(***************************************************************************)
\* the next button can be clicked
AdvanceEnabled == ~elements.quizHidden /\ ~elements.nextDisabled

\* the current position has an answer
CurrentAnswered == answerAt(state, state.currentIndex) # NULL

AdvanceGuardedStep ==
  /\ AdvanceEnabled => CurrentAnswered
  /\ AdvanceEnabled' => CurrentAnswered'
  /\ \A index \in Choices :
       ClickChoice(index) =>
         /\ state'.currentIndex = state.currentIndex
         /\ answerAt(state', state.currentIndex) = index
         /\ AdvanceEnabled'

\* C13: the next button can be clicked only while the current position has
\* an answer, whatever start, select, advance, retreat, retry and fetch
\* events came before, and it can be clicked right after a click on a choice
\* of the current question.
AdvanceGuarded == [][AdvanceGuardedStep]_vars

\* the player advanced to the second question and answered it
AdvanceGuardedWitness ==
  /\ AdvanceEnabled
  /\ state.currentIndex = 1
  /\ CurrentAnswered
  /\ answerAt(state, 0) # NULL

\* C14: currentIndex is never negative, it is below the number of questions
\* whenever there are questions, and there are questions whenever the quiz is
\* shown.
CurrentIndexInBounds ==
  /\ state.currentIndex >= 0
  /\ Len(state.questions) > 0 => state.currentIndex < Len(state.questions)
  /\ Len(state.questions) = 0 => state.currentIndex = 0
  /\ ~elements.quizHidden => Len(state.questions) > 0

\* the player is at the last of several questions and has answered it
CurrentIndexInBoundsWitness ==
  /\ ~elements.quizHidden
  /\ Len(state.questions) > 1
  /\ state.currentIndex = Len(state.questions) - 1
  /\ ~elements.nextDisabled
  /\ elements.nextLabel = "result"

\* submitAnswers ran in the step: it stopped the timer and either sent a
\* POST /api/submit or showed that a question is unanswered
SubmissionTriggered ==
  /\ state'.timerInterval = NULL
  /\ \/ /\ Len(network') = Len(network) + 1
        /\ network'[Len(network')].kind = "submit"
        /\ SubSeq(network', 1, Len(network)) = network
     \/ /\ network' = network
        /\ elements'.resultText = "unanswered"
        /\ ~elements'.resultHidden

AdvanceStep ==
  IF state.currentIndex = Len(state.questions) - 1
  THEN /\ SubmissionTriggered
       /\ state'.currentIndex = state.currentIndex
  ELSE /\ state'.currentIndex = state.currentIndex + 1
       /\ network' = network
       /\ state'.timerInterval = state.timerInterval
       /\ elements'.resultText = elements.resultText
       /\ elements'.resultHidden = elements.resultHidden

\* C15: a click on the enabled next button at the last position runs the
\* submission and leaves currentIndex as it is; at any other position it
\* adds one to currentIndex and runs no submission.
AdvanceSubmitsOnLast == [][ClickNext => AdvanceStep]_vars

\* a POST /api/submit for two questions is in flight, and the player is still
\* at the last position
AdvanceSubmitsOnLastWitness ==
  /\ Len(network) = 1
  /\ network[1].kind = "submit"
  /\ Len(network[1].body.answers.items) = 2
  /\ state.currentIndex = 1
  /\ Len(state.questions) = 2
  /\ state.timerInterval = NULL

RetreatStep ==
  /\ state.currentIndex = 0 => clickPrev(page) = page
  /\ state.currentIndex = 0 /\ ~elements.quizHidden => ~ENABLED ClickPrev
  /\ ClickPrev =>
       /\ state.currentIndex > 0
       /\ state'.currentIndex = state.currentIndex - 1
       /\ state'.answers = state.answers
       /\ state'.feedback = state.feedback
       /\ state'.questions = state.questions
       /\ network' = network

\* C16: at position 0 the handler of the previous button changes nothing (and
\* the button cannot be clicked); at any other position it takes one from
\* currentIndex and leaves the answers and the feedback of every position as
\* they are.
RetreatKeepsAnswers == [][RetreatStep]_vars

\* the player is back at the first question, and the second keeps its answer
\* and its feedback
RetreatKeepsAnswersWitness ==
  /\ ~elements.quizHidden
  /\ state.currentIndex = 0
  /\ Len(state.answers) > 1
  /\ state.answers[2] # NULL
  /\ state.feedback[2] # noFeedback
  /\ elements.prevDisabled

\* the feedback of choice c on question q
FeedbackOf(c, q) ==
  [status |-> IF c = q.answer THEN "correct" ELSE "incorrect",
   message |-> IF c = q.answer THEN NULL ELSE q.answer]

SelectStep ==
  \A index \in Choices :
    ClickChoice(index) =>
      LET i == state.currentIndex + 1
      IN  /\ state'.answers = [state.answers EXCEPT ![i] = index]
          /\ state'.feedback = [state.feedback EXCEPT ![i] = FeedbackOf(index, state.questions[i])]
          /\ state'.questions = state.questions
          /\ state'.currentIndex = state.currentIndex
          /\ handleChoiceSelection(page', index) = page'

\* C17: a click on a choice sets the answer of the current position to that
\* choice and its feedback to the feedback of that choice on the current
\* question, whatever they were; the same click again changes nothing more;
\* the answers and the feedback of the other positions stay as they are.
SelectOverwrites == [][SelectStep]_vars

\* the first question carries a wrong answer and the second, shown, a right one
SelectOverwritesWitness ==
  /\ ~elements.quizHidden
  /\ state.currentIndex = 1
  /\ Len(state.questions) = 2
  /\ state.feedback[1].status = "incorrect"
  /\ state.feedback[1].message = state.questions[1].answer
  /\ state.feedback[2].status = "correct"
  /\ elements.feedbackShown = "correct"

\* C18: answers and feedback have one position per question; at every
\* position there is feedback if and only if there is an answer, and then its
\* status is 'correct' exactly when the answer is the answer of the question
\* at that position.
FeedbackFollowsAnswers ==
  /\ Len(state.answers) = Len(state.questions)
  /\ Len(state.feedback) = Len(state.questions)
  /\ \A i \in 1..Len(state.questions) :
       /\ state.feedback[i] # noFeedback <=> state.answers[i] # NULL
       /\ state.answers[i] # NULL =>
            /\ state.feedback[i].status \in {"correct", "incorrect"}
            /\ state.feedback[i].status = "correct"
                 <=> state.answers[i] = state.questions[i].answer

\* after a wrong answer to the first of two questions the player moved on
FeedbackFollowsAnswersWitness ==
  /\ ~elements.quizHidden
  /\ Len(state.questions) = 2
  /\ state.currentIndex = 1
  /\ state.answers[1] # NULL
  /\ state.answers[1] # state.questions[1].answer
  /\ state.feedback[1].status = "incorrect"
  /\ state.answers[2] = NULL
  /\ state.feedback[2] = noFeedback

NoDuplicateIds(list) == \A i, j \in 1..Len(list) : list[i].id = list[j].id => i = j

FromBank(list) == \A i \in 1..Len(list) : \E b \in 1..BankSize : list[i] = questions[b]

\* C19: the question set of a session has no two questions with the same id
\* and only questions of the bank, and when the count requested from the
\* server is k in [1, bankSize] it has exactly k questions, for every outcome
\* of the draws of the server's and of the page's shuffle.
QuestionSetOfRequestedCount ==
  /\ NoDuplicateIds(state.questions) /\ FromBank(state.questions)
  /\ NoDuplicateIds(state.originalQuestions) /\ FromBank(state.originalQuestions)
  /\ quiz.route = "quiz" =>
       /\ state.originalQuestions = quiz.questions
       /\ Len(state.questions) = Len(state.originalQuestions)
       /\ \A k \in 1..BankSize :
            quiz.query = LimitString(numberToString(k)) => Len(state.questions) = k

\* a session runs on all the questions of the bank, as requested, in another
\* order than the server sent them
QuestionSetOfRequestedCountWitness ==
  /\ ~elements.quizHidden
  /\ quiz.route = "quiz"
  /\ quiz.query = LimitString(numberToString(BankSize))
  /\ Len(state.questions) = BankSize
  /\ state.questions # state.originalQuestions

\* the questions of a list, whatever their order
QuestionsOf(list) == {list[i] : i \in 1..Len(list)}

\* b holds the questions of a in some order
Permutation(a, b) ==
  /\ Len(a) = Len(b)
  /\ QuestionsOf(a) = QuestionsOf(b)
  /\ NoDuplicateIds(b)

\* the submit handler of the form passes its two guards
StartAccepted ==
  /\ trim(elements.nameInput) # <<>>
  /\ ~state.isFetchingQuestions
  /\ Len(state.originalQuestions) > 0

\* the step leaves a fresh session on the questions loaded before it
FreshSessionStep ==
  /\ state'.originalQuestions = state.originalQuestions
  /\ Permutation(state.originalQuestions, state'.questions)
  /\ Permutation(state.questions, state'.questions)
  /\ state'.currentIndex = 0
  /\ state'.answers = filled(Len(state.originalQuestions), NULL)
  /\ state'.feedback = filled(Len(state.originalQuestions), noFeedback)
  /\ state'.startTime = now
  /\ state'.timerInterval # NULL
  /\ ~elements'.quizHidden
  /\ elements'.resultHidden
  /\ network' = network

\* every order of the loaded questions can come out of the step
AnyOrderStep ==
  /\ \A draws \in Draws(Len(state.originalQuestions)) :
       /\ clickRetry(page, draws, now).state.questions
            = shuffleQuestions(state.originalQuestions, draws)
       /\ StartAccepted =>
            submitForm(page, draws, now).state = clickRetry(page, draws, now).state
  /\ Len(state.originalQuestions) > 1 =>
       \E draws \in Draws(Len(state.originalQuestions)) :
         clickRetry(page, draws, now).state.questions # state.questions

\* C21: a start that passes the guards of the form, and every retry, leave
\* the same fresh session: the questions are the loaded questions in an order
\* drawn anew (every order can come out, so also another one than before),
\* currentIndex is 0, no position has an answer or feedback, and startTime is
\* the current time.
FreshSessionOnStartAndRetry ==
  [][/\ SubmitForm /\ StartAccepted => FreshSessionStep /\ AnyOrderStep
     /\ ClickRetry => FreshSessionStep /\ AnyOrderStep]_vars

\* a retry after a shown result: the clock moved on since the first start,
\* and the session is fresh
FreshSessionOnStartAndRetryWitness ==
  /\ elements.resultText # "none"
  /\ elements.resultHidden
  /\ ~elements.quizHidden
  /\ state.startTime = MaxClock
  /\ Len(state.questions) = BankSize
  /\ state.answers = filled(BankSize, NULL)
  /\ state.feedback = filled(BankSize, noFeedback)
  /\ state.currentIndex = 0

\* C22: once the session has started (the intro is hidden), a step changes
\* the question set only when it is a retry: a click on a choice, on next or
\* on previous, a tick of the timer, the end of a submission and the end of
\* a question fetch leave its size and its order as they are.
QuestionSetFixed ==
  [][elements.introHidden /\ ~ClickRetry => state'.questions = state.questions]_vars

\* the result is shown in place of the quiz
Completed == elements.quizHidden /\ ~elements.resultHidden

\* a POST /api/submit of the page is answered in the step
SubmitOkStep == \E k \in 1..Len(network) : SubmitFetchOk(k)

SubmitFailedStep == \E k \in 1..Len(network) : SubmitFetchFailed(k)

\* the step sends a POST /api/submit
SubmitSentStep ==
  /\ Len(network') = Len(network) + 1
  /\ network'[Len(network')].kind = "submit"

LastPosition == state.currentIndex = Len(state.questions) - 1

CompletedStep ==
  /\ ~Completed /\ Completed' => SubmitOkStep
  /\ SubmitOkStep => Completed' /\ elements'.resultText = "score"
  /\ SubmitSentStep => ClickNext /\ LastPosition
  /\ SubmitFailedStep =>
       /\ elements'.quizHidden = elements.quizHidden
       /\ ~Completed => ~Completed'
       /\ ~elements'.resultHidden
       /\ elements'.resultText = "failed"
  /\ LET rejected == submitAnswers(page, now)
     IN  rejected.network = network =>
           /\ rejected.elements.quizHidden = elements.quizHidden
           /\ rejected.elements.resultText = "unanswered"
           /\ rejected.state.questions = state.questions
           /\ rejected.state.answers = state.answers

\* C23: the result takes the place of the quiz only in the step that ends a
\* POST /api/submit with an ok response, and such a request is only sent by a
\* click on next at the last position; the end of a failed submission and a
\* submission refused by the page show a message and leave the quiz where it
\* is.
CompletedOnlyBySuccess == [][CompletedStep]_vars

\* the result of a quiz of two questions is shown in place of the quiz
CompletedOnlyBySuccessWitness ==
  /\ Completed
  /\ elements.resultText = "score"
  /\ Len(state.questions) = 2
  /\ LastPosition
  /\ \A i \in 1..2 : state.answers[i] # NULL
  /\ network = <<>>

\* the page still holds what the request at position k of the network was
\* made of: the name typed and the answers given
SentFromThisState(k) ==
  /\ network[k].body.playerName = NameString(elements.nameInput)
  /\ network[k].body.answers = AnswerArray(answerPayload(state))

ResubmitAfterFailureStep ==
  \A k \in 1..Len(network) :
    SubmitFetchFailed(k) =>
      /\ state'.questions = state.questions
      /\ state'.answers = state.answers
      /\ state'.feedback = state.feedback
      /\ state'.currentIndex = state.currentIndex
      /\ SentFromThisState(k) =>
           LET again == submitAnswers(page', now')
           IN  /\ Len(again.network) = Len(network') + 1
               /\ again.network[Len(again.network)].body = network[k].body

\* C24: the end of a failed submission leaves the question set, the answers,
\* the feedback and currentIndex as they are, and a submission made again
\* right then, from the same name and answers, sends the body the failed
\* request carried: the same playerName, the same answers and the same
\* totalTime.
ResubmitSamePayload == [][ResubmitAfterFailureStep]_vars

\* every position of the question set has an answer
AllAnswered == \A i \in 1..Len(state.questions) : answerAt(state, i - 1) # NULL

\* every item of the body is an answer to a question
CompleteBody(body) ==
  /\ body.answers.isArray
  /\ \A i \in 1..Len(body.answers.items) :
       /\ body.answers.items[i].questionId.t = "number"
       /\ body.answers.items[i].choiceIndex.t = "number"
       /\ body.answers.items[i].choiceIndex.v \in Choices

\* C25: a POST /api/submit leaves the page only from a state where every
\* position has an answer, and carries a choice for every item; on every
\* page with an unanswered position submitAnswers sends nothing and shows
\* the message for unanswered questions.
SubmitOnlyWhenComplete ==
  /\ \A k \in 1..Len(network) : network[k].kind = "submit" => CompleteBody(network[k].body)
  /\ LET tried == submitAnswers(page, now)
     IN  IF AllAnswered
         THEN /\ Len(tried.network) = Len(network) + 1
              /\ tried.network[Len(tried.network)].kind = "submit"
              /\ Len(tried.network[Len(tried.network)].body.answers.items)
                   = Len(state.questions)
         ELSE /\ tried.network = network
              /\ tried.elements.resultText = "unanswered"
              /\ ~tried.elements.resultHidden

\* a submission of two answers, one of them wrong, is in flight
SubmitOnlyWhenCompleteWitness ==
  /\ \E k \in 1..Len(network) :
       /\ network[k].kind = "submit"
       /\ network[k].body.answers = AnswerArray(answerPayload(state))
  /\ AllAnswered
  /\ Len(state.questions) = 2
  /\ state.feedback[1].status = "incorrect"
  /\ state.feedback[2].status = "correct"

\* the body submitAnswers sends from the page as it is
BodyToSend == submitAnswers(page, now).network[Len(network) + 1].body

\* the response of the server to a body, whatever leaderboard it holds
Accepts(body, total) ==
  \A file \in AsyncFiles :
    LET response == handleSubmit(body, file, now).res
    IN  /\ response.status = 200
        /\ response.total = total

\* C26: from every page where all the questions have an answer, the body of
\* the submission holds one item per question, in the order of the question
\* set, with the id of the question and the choice made, no id twice; the
\* server accepts it and answers with a total that is the number of questions
\* of the session.  Every submission in flight is accepted with one point of
\* total per item.
PayloadCoversSession ==
  /\ AllAnswered /\ Len(state.questions) > 0 =>
       LET items == BodyToSend.answers.items
       IN  /\ Len(items) = Len(state.questions)
           /\ \A i \in 1..Len(items) :
                items[i] = ObjItem(JNum(state.questions[i].id), JNum(state.answers[i]))
           /\ \A i, j \in 1..Len(items) :
                items[i].questionId = items[j].questionId => i = j
           /\ Accepts(BodyToSend, Len(state.questions))
  /\ \A k \in 1..Len(network) :
       network[k].kind = "submit" =>
         Accepts(network[k].body, Len(network[k].body.answers.items))

\* the answers to all the questions of the bank are on their way
PayloadCoversSessionWitness ==
  /\ Len(network) = 1
  /\ network[1].kind = "submit"
  /\ Len(state.questions) = BankSize
  /\ network[1].body = [BodyToSend EXCEPT !.totalTime = network[1].body.totalTime]
  /\ handleSubmit(network[1].body, leaderboardFile, now).res.total = BankSize

\* the number of positions the page shows as answered right
CorrectCount == Cardinality({i \in 1..Len(state.feedback) : state.feedback[i].status = "correct"})

\* the score the server gives to a body
ScoreOf(body) == handleSubmit(body, leaderboardFile, now).res.score

\* C30: from every page where all the questions have an answer, the score
\* the server answers to the body the page sends is the number of positions
\* whose feedback on the page is 'correct', whatever leaderboard the server
\* holds.
ScoreMatchesFeedback ==
  AllAnswered /\ Len(state.questions) > 0 =>
    \A file \in AsyncFiles :
      LET response == handleSubmit(BodyToSend, file, now).res
      IN  /\ response.status = 200
          /\ response.score = CorrectCount

\* one right and one wrong answer are on their way, and the server counts one
ScoreMatchesFeedbackWitness ==
  /\ Len(network) = 1
  /\ network[1].kind = "submit"
  /\ network[1].body.answers = BodyToSend.answers
  /\ Len(state.questions) = 2
  /\ CorrectCount = 1
  /\ ScoreOf(network[1].body) = 1

(***************************************************************************)
(* The page with a player who clicks again while a submission is pending:  *)
(* one request more than MaxInFlight may be in flight.  The question count *)
(* stays the default and the clock stands still.                           *)
(***************************************************************************)
\* a click on the next button, also while a POST /api/submit is in flight
ClickNextWhilePending ==
  /\ ~elements.quizHidden
  /\ ~elements.nextDisabled
  /\ clickNext(page, now).network = network \/ Len(network) <= MaxInFlight
  /\ ShowPage(clickNext(page, now))
  /\ UNCHANGED <<serverVars, handlers, ioLog, quiz>>

NextPending ==
  \/ TypeName
  \/ SubmitForm
  \/ ClickSomeChoice
  \/ ClickNextWhilePending
  \/ ClickPrev
  \/ ClickRetry
  \/ Settle

SpecPending == InitClient /\ [][NextPending]_vars

\* a POST /api/submit of the page is in flight
SubmitInFlight == \E k \in 1..Len(network) : network[k].kind = "submit"

\* C27: while a POST /api/submit of the page is in flight, no step sends
\* another one and no step is a retry.
OneSubmissionAtATime == [][SubmitInFlight => ~SubmitSentStep /\ ~ClickRetry]_vars

\* h can be the highest position visited: the player is not beyond it, every
\* position before it has an answer (next was clicked there) and no position
\* after it has one
HighestVisited(h) ==
  /\ state.currentIndex <= h
  /\ \A i \in 0..(Len(state.questions) - 1) :
       /\ i < h => answerAt(state, i) # NULL
       /\ i > h => answerAt(state, i) = NULL

AnsweredUpToVisited ==
  /\ \A i \in 0..(state.currentIndex - 1) : answerAt(state, i) # NULL
  /\ \E h \in 0..Len(state.questions) : HighestVisited(h)

\* C28: in every state every position before currentIndex has an answer, and
\* the positions with an answer are those before some position the player
\* has reached, and possibly that position; so a click on next at the last
\* position finds every position answered and sends the submission.
NoPositionSkipped ==
  [][/\ AnsweredUpToVisited
     /\ AnsweredUpToVisited'
     /\ ClickNext /\ LastPosition => AllAnswered /\ SubmitSentStep]_vars

\* the player went to the second question, answered it and came back
NoPositionSkippedWitness ==
  /\ ~elements.quizHidden
  /\ elements.resultHidden
  /\ state.currentIndex = 0
  /\ Len(state.questions) = 2
  /\ HighestVisited(1)
  /\ answerAt(state, 1) # NULL
  /\ elements.nextLabel = "next"
  /\ ~elements.nextDisabled

\* C29: a tick of the timer's interval changes nothing of the state object,
\* so neither the question set, the answers, the feedback, currentIndex nor
\* startTime, and nothing on the page but the time shown, which it computes
\* from startTime; this in any interleaving with the other events.
TimerOnlyReads ==
  [][RenderTimer =>
       /\ state' = state
       /\ network' = network
       /\ elements' = [elements EXCEPT !.timer = now - state.startTime]
       /\ state.startTime # NULL]_vars

\* the timer shows time passed while the second question, answered, is shown
TimerOnlyReadsWitness ==
  /\ elements.timer > 0
  /\ state.timerInterval # NULL
  /\ state.startTime = 0
  /\ state.currentIndex = 1
  /\ answerAt(state, 1) # NULL

handleSubmitUnreadable(body, file, clock) ==
  LET h == handleSubmit(body, writeLeaderboard(<<>>), clock)
  IN  IF h.last.accepted THEN h ELSE [h EXCEPT !.file = file]

\* the request received is handled, once, and its read of the file fails
SubmitUnreadable ==
  /\ res = noResponse
  /\ leaderboardFile.exists
  /\ LET h == handleSubmitUnreadable(req, leaderboardFile, now)
     IN  /\ leaderboardFile' = h.file
         /\ res' = h.res
         /\ last' = h.last
  /\ UNCHANGED <<now, req>>
  /\ UNCHANGED otherVars

NextUnreadable == SubmitOnce \/ SubmitUnreadable

SpecUnreadable == InitOnce /\ [][NextUnreadable]_vars

\* C32: a submit whose read of the leaderboard fails leaves every entry that
\* was persisted before it persisted: under each name stored before, the
\* file still holds an entry, with a score that is not lower.
FailedReadKeepsEntries ==
  [][SubmitUnreadable =>
       \A i \in 1..Len(Persisted(leaderboardFile)) :
         \E j \in 1..Len(Persisted(leaderboardFile')) :
           /\ Persisted(leaderboardFile')[j].name = Persisted(leaderboardFile)[i].name
           /\ Persisted(leaderboardFile')[j].score >= Persisted(leaderboardFile)[i].score]_vars

\* C33: in the persisted leaderboard, of two entries with the same score the
\* one without a time (totalTime null) is never ranked ahead of one with a
\* recorded time.
NullTimeNotAhead ==
  \A i, j \in 1..Len(Persisted(leaderboardFile)) :
    /\ i < j
    /\ Persisted(leaderboardFile)[i].score = Persisted(leaderboardFile)[j].score
    /\ Persisted(leaderboardFile)[i].totalTime = NULL
    => Persisted(leaderboardFile)[j].totalTime = NULL

\* C34: the name the handler keeps for a request is left unchanged by a
\* second sanitizeName, and neither begins nor ends with a space.
SanitizeNameIdempotent ==
  req.playerName.t = "string" =>
    LET name == sanitizeName(req.playerName.s)
    IN  /\ sanitizeName(name) = name
        /\ name # <<>> => ~IsSpace(name[1]) /\ ~IsSpace(name[Len(name)])

\* the GET /api/quiz requests of the page in flight
QuizFetches == {k \in 1..Len(network) : network[k].kind = "quiz"}

\* the flag is set exactly while a GET /api/quiz is in flight, and there is
\* at most one
OneFetchFlagged ==
  /\ Cardinality(QuizFetches) <= 1
  /\ state.isFetchingQuestions <=> QuizFetches # {}
  /\ elements.selectDisabled = state.isFetchingQuestions
  /\ elements.startDisabled = state.isFetchingQuestions

FetchGuardStep ==
  /\ OneFetchFlagged
  /\ OneFetchFlagged'
  /\ SubmitForm /\ ~elements'.quizHidden =>
       /\ QuizFetches = {}
       /\ Len(state.originalQuestions) > 0
       /\ Len(state'.questions) > 0
  /\ state.isFetchingQuestions =>
       /\ \A value \in CountOptions : changeQuestionCount(page, value).network = network
       /\ \A draws \in Draws(Len(state.originalQuestions)) :
            submitForm(page, draws, now) = page
  /\ \A k \in 1..Len(network) :
       QuizFetchOk(k) \/ QuizFetchFailed(k) => ~state'.isFetchingQuestions
  /\ ~elements.quizHidden => Len(state.questions) > 0

\* C35: the form starts a session only when no GET /api/quiz is in flight
\* and questions are loaded; while one is in flight the flag is set, the
\* handlers of the select and of the form do nothing, so no second one is
\* sent, and the flag is cleared by the step that settles it, with an ok
\* response or a failure; a shown quiz always has questions.
StartAndFetchGuarded == [][FetchGuardStep]_vars

\* a session on one question: the select of the form was used after the
\* first fetch had settled, and its fetch settled before the start
StartAndFetchGuardedWitness ==
  /\ elements.selectInForm
  /\ ~elements.quizHidden
  /\ state.selectedQuestionCount = 1
  /\ Len(state.questions) = 1
  /\ ~state.isFetchingQuestions
  /\ QuizFetches = {}

(***************************************************************************)
(* The page with a player who only goes forward: the count is picked       *)
(* before the start, and in the quiz the player clicks choices and the     *)
(* next button, never the previous or the retry button.  A click that is   *)
(* possible from some point on is made: the choices stay clickable and,    *)
(* once the question shown is answered, so does the next button.  The      *)
(* clock stands still.                                                     *)
(***************************************************************************)
\* the player picks another question count on the intro screen
ChangeQuestionCountBeforeStart ==
  /\ ~elements.introHidden
  /\ ChangeQuestionCount

NextAdvance ==
  \/ TypeName
  \/ ChangeQuestionCountBeforeStart
  \/ SubmitForm
  \/ ClickSomeChoice
  \/ ClickNext
  \/ Settle

SpecAdvance ==
  /\ InitClient
  /\ [][NextAdvance]_vars
  /\ WF_vars(ClickSomeChoice)
  /\ WF_vars(ClickNext)

\* a session is in progress: the quiz is shown, on n >= 1 questions
InProgress == ~elements.quizHidden /\ Len(state.questions) >= 1

\* a click on next at position i < n - 1 shows position i + 1 of the same
\* questions, one at the last position sends the POST and stays; no other
\* step of a session in progress moves the position or changes the questions
ForwardStep ==
  InProgress =>
    IF ClickNext
    THEN IF LastPosition
         THEN /\ SubmitInFlight'
              /\ state'.currentIndex = state.currentIndex
         ELSE /\ state'.currentIndex = state.currentIndex + 1
              /\ state'.currentIndex < Len(state.questions)
              /\ state'.questions = state.questions
              /\ network' = network
    ELSE /\ state'.currentIndex = state.currentIndex
         /\ state'.questions = state.questions

\* C36: from a session in progress on n >= 1 questions, a player who keeps
\* clicking a choice and the next button gets to a POST /api/submit in
\* flight; every click on next before it adds one to the position, which
\* nothing else moves, so the click that sends it is at most the n-th.
AdvancingSubmits ==
  /\ [][ForwardStep]_vars
  /\ InProgress ~> SubmitInFlight

\* the POST of a session on two questions, sent from the second
AdvancingSubmitsWitness ==
  /\ InProgress
  /\ SubmitInFlight
  /\ Len(state.questions) = 2
  /\ state.currentIndex = 1

=============================================================================
